---- MODULE Spec2Model ----
(***************************************************************************)
(* Clipboard rich-text capture and reconciliation of NotatApp (src/app.py). *)
(*                                                                         *)
(* Text is a sequence of characters, each character a one-element string   *)
(* atom ("a", " ", "\n", ...).  A run is the pair <<text, is_bold>>, as in  *)
(* the source's (text, is_bold) tuples.                                    *)
(*                                                                         *)
(* Specifications:                                                         *)
(*   Spec           the poll tick / toggle / clipboard-access machine      *)
(*   SpecReconcile  _read_clipboard_capture's scoring and selection        *)
(*   SpecNormalize  _normalize_captured_runs applied once and twice        *)
(***************************************************************************)
EXTENDS Integers, Sequences, FiniteSets, TLC

\* ---------------------------------------------------------------------
\* Bounds of the model
\* ---------------------------------------------------------------------
\* longest run text fed to the normalizer
MaxRunLen == 2
\* most runs in a sequence fed to the normalizer
MaxRuns == 3
\* longest plain text and longest candidate run text given to the reconciler
MaxTextLen == 2
\* most markup candidates scored in one capture attempt of SpecReconcile
MaxCands == 2
\* most captures appended to the document in Spec
MaxDoc == 2
\* most two-byte units in a buffer given to the byte decoder
MaxUnits == 4
\* how far past the end of the payload a header offset points at most
MaxBeyond == 1
\* most references in a chain of style variables
MaxRefs == 8
\* most tags and texts handed to the markup parser, the examples apart
MaxTokens == 3
\* most pieces of a legacy rich-text input, the examples apart
MaxItems == 2
\* most braces and bold toggles of a legacy rich-text input of those alone
MaxGroup == 5

\* ---------------------------------------------------------------------
\* Program constants
\* ---------------------------------------------------------------------
CLIPBOARD_OPEN_RETRIES == 12

\* ---------------------------------------------------------------------
\* Characters
\* ---------------------------------------------------------------------
\* U+2022, the bullet the source replaces by "-"
BULLET == "BULLET"
\* U+00A0 and U+202F, replaced by a space in _normalize_captured_text
NBSP == "NBSP"
NNBSP == "NNBSP"

\* str.isspace() over the characters of the model
IsSpace(c) == c \in {" ", "\t", "\n", "\r", NBSP, NNBSP}

\* the class [ \t] of MULTISPACE_PATTERN and of the bullet regexes
IsBlank(c) == c \in {" ", "\t"}

Drop(s, n) == SubSeq(s, n + 1, Len(s))

\* number of consecutive blanks / whitespace characters / newlines of s from
\* position p on
RECURSIVE BlankSpan(_, _)
BlankSpan(s, p) ==
  IF p > Len(s) \/ ~IsBlank(s[p]) THEN 0 ELSE 1 + BlankSpan(s, p + 1)

RECURSIVE SpaceSpan(_, _)
SpaceSpan(s, p) ==
  IF p > Len(s) \/ ~IsSpace(s[p]) THEN 0 ELSE 1 + SpaceSpan(s, p + 1)

RECURSIVE NewlineSpan(_, _)
NewlineSpan(s, p) ==
  IF p > Len(s) \/ s[p] # "\n" THEN 0 ELSE 1 + NewlineSpan(s, p + 1)

\* str.replace(pat, rep): leftmost, non-overlapping occurrences
RECURSIVE StrReplace(_, _, _)
StrReplace(s, pat, rep) ==
  IF Len(s) < Len(pat) THEN s
  ELSE IF SubSeq(s, 1, Len(pat)) = pat
       THEN rep \o StrReplace(Drop(s, Len(pat)), pat, rep)
       ELSE <<Head(s)>> \o StrReplace(Tail(s), pat, rep)

\* str.lstrip() and str.rstrip(): strip whitespace
RECURSIVE LStrip(_)
LStrip(s) == IF s # <<>> /\ IsSpace(Head(s)) THEN LStrip(Tail(s)) ELSE s

RECURSIVE RStrip(_)
RStrip(s) ==
  IF s # <<>> /\ IsSpace(s[Len(s)]) THEN RStrip(SubSeq(s, 1, Len(s) - 1)) ELSE s

\* str.lstrip(" "): strip spaces only
RECURSIVE LStripSpaces(_)
LStripSpaces(s) == IF s # <<>> /\ Head(s) = " " THEN LStripSpaces(Tail(s)) ELSE s

\* MULTISPACE_PATTERN.sub(" ", line): every maximal run of two or more
\* blanks becomes one space
RECURSIVE MultispaceSub(_)
MultispaceSub(s) ==
  IF s = <<>> THEN s
  ELSE LET n == BlankSpan(s, 1)
       IN  IF n >= 2 THEN <<" ">> \o MultispaceSub(Drop(s, n))
           ELSE <<Head(s)>> \o MultispaceSub(Tail(s))

\* _normalize_captured_text.  The pattern [ \t]{2,} never crosses "\n", so the
\* per-line substitution followed by the join is the substitution on the text.
_normalize_captured_text(text) ==
  LET s1 == StrReplace(text, <<"\r", "\n">>, <<"\n">>)
      s2 == StrReplace(s1, <<"\r">>, <<"\n">>)
      s3 == StrReplace(s2, <<NBSP>>, <<" ">>)
      s4 == StrReplace(s3, <<NNBSP>>, <<" ">>)
  IN  MultispaceSub(s4)

\* length of the match of \n[ \t]*-\s*\n at the start of s, 0 when none.
\* \s* is greedy and backs off to the last "\n" of the whitespace after "-".
BulletLineMatchLen(s) ==
  IF s = <<>> \/ Head(s) # "\n" THEN 0
  ELSE LET b == BlankSpan(s, 2)
           d == 2 + b
       IN  IF d > Len(s) \/ s[d] # "-" THEN 0
           ELSE LET w  == SpaceSpan(s, d + 1)
                    ks == {k \in 1..w : s[d + k] = "\n"}
                IN  IF ks = {} THEN 0
                    ELSE d + (CHOOSE k \in ks : \A j \in ks : j <= k)

\* re.sub(r"\n[ \t]*-\s*\n", "\n- ", s)
RECURSIVE BulletLineSub(_)
BulletLineSub(s) ==
  IF s = <<>> THEN s
  ELSE LET m == BulletLineMatchLen(s)
       IN  IF m > 0 THEN <<"\n", "-", " ">> \o BulletLineSub(Drop(s, m))
           ELSE <<Head(s)>> \o BulletLineSub(Tail(s))

\* re.sub(r"\n{3,}", "\n\n", s)
RECURSIVE BlankLinesSub(_)
BlankLinesSub(s) ==
  IF s = <<>> THEN s
  ELSE LET n == NewlineSpan(s, 1)
       IN  IF n >= 3 THEN <<"\n", "\n">> \o BlankLinesSub(Drop(s, n))
           ELSE IF n >= 1 THEN SubSeq(s, 1, n) \o BlankLinesSub(Drop(s, n))
           ELSE <<Head(s)>> \o BlankLinesSub(Tail(s))

\* the per-run cleaning of _normalize_captured_runs (lines 2770-2775)
CleanRunText(run_text) ==
  LET c1 == _normalize_captured_text(run_text)
      c2 == StrReplace(c1, <<BULLET>>, <<"-">>)
      c3 == BulletLineSub(c2)
      c4 == BlankLinesSub(c3)
      c5 == StrReplace(c4, <<"\n", "\n", "-", " ">>, <<"\n", "-", " ">>)
  IN  StrReplace(c5, <<"\n", "-", " ", " ">>, <<"\n", "-", " ">>)

\* first loop: clean each run, skip the empty ones, merge a run into the
\* previous one when the bold values agree
RECURSIVE MergeCleaned(_, _)
MergeCleaned(normalized, runs) ==
  IF runs = <<>> THEN normalized
  ELSE LET cleaned == CleanRunText(Head(runs)[1])
           is_bold == Head(runs)[2]
           n       == Len(normalized)
       IN  IF cleaned = <<>> THEN MergeCleaned(normalized, Tail(runs))
           ELSE IF n > 0 /\ normalized[n][2] = is_bold
                THEN MergeCleaned(
                       [normalized EXCEPT ![n] = <<normalized[n][1] \o cleaned, is_bold>>],
                       Tail(runs))
                ELSE MergeCleaned(Append(normalized, <<cleaned, is_bold>>), Tail(runs))

\* second loop: for i in range(1, len): a run starting with a space, after a
\* run (as already rewritten) ending with a space, loses its leading spaces
RECURSIVE CollapseLeadingSpace(_, _)
CollapseLeadingSpace(normalized, i) ==
  IF i > Len(normalized) THEN normalized
  ELSE LET prev == normalized[i - 1][1]
           curr == normalized[i][1]
       IN  IF prev # <<>> /\ prev[Len(prev)] = " " /\ curr # <<>> /\ Head(curr) = " "
           THEN CollapseLeadingSpace(
                  [normalized EXCEPT ![i] = <<LStripSpaces(curr), normalized[i][2]>>],
                  i + 1)
           ELSE CollapseLeadingSpace(normalized, i + 1)

\* [item for item in normalized if item[0]]
NonEmptyRuns(normalized) == SelectSeq(normalized, LAMBDA item : item[1] # <<>>)

\* trim of the first and of the last run (lines 2797-2798), in that order
TrimEnds(normalized) ==
  LET a == [normalized EXCEPT ![1] = <<LStrip(normalized[1][1]), normalized[1][2]>>]
      n == Len(a)
  IN  [a EXCEPT ![n] = <<RStrip(a[n][1]), a[n][2]>>]

_normalize_captured_runs(runs) ==
  LET merged == MergeCleaned(<<>>, runs)
  IN  IF merged = <<>> THEN <<>>
      ELSE LET kept == NonEmptyRuns(CollapseLeadingSpace(merged, 2))
           IN  IF kept = <<>> THEN <<>>
               ELSE NonEmptyRuns(TrimEnds(kept))

\* ---------------------------------------------------------------------
\* Bytes and characters
\* ---------------------------------------------------------------------
\* A byte is its value 0..255; a decoded character is the string atom of the
\* rest of the model.  The printable ASCII characters, U+0020 to U+007E
\* (U+0060 is written BACKTICK):
AsciiChars ==
  <<" ", "!", "\"", "#", "$", "%", "&", "'", "(", ")", "*", "+", ",", "-", ".", "/",
     "0", "1", "2", "3", "4", "5", "6", "7", "8", "9", ":", ";", "<", "=", ">", "?",
     "@", "A", "B", "C", "D", "E", "F", "G", "H", "I", "J", "K", "L", "M", "N", "O",
     "P", "Q", "R", "S", "T", "U", "V", "W", "X", "Y", "Z", "[", "\\", "]", "^", "_",
     "BACKTICK", "a", "b", "c", "d", "e", "f", "g", "h", "i", "j", "k", "l", "m", "n", "o",
     "p", "q", "r", "s", "t", "u", "v", "w", "x", "y", "z", "{", "|", "}", "~">>

NUL == "NUL"

\* chr(): the character of a code point
Chr(n) ==
  IF n \in 32..126 THEN AsciiChars[n - 31]
  ELSE CASE n = 0 -> NUL
         [] n = 9 -> "\t"
         [] n = 10 -> "\n"
         [] n = 13 -> "\r"
         [] n = 160 -> NBSP
         [] n = 8226 -> BULLET
         [] n = 8239 -> NNBSP
         [] OTHER -> "U+" \o ToString(n)

\* ord() of the ASCII characters, control characters included
OrdTable ==
  [c \in {AsciiChars[k] : k \in 1..95} \cup {NUL, "\t", "\n", "\r"} |->
     CASE c = NUL -> 0
       [] c = "\t" -> 9
       [] c = "\n" -> 10
       [] c = "\r" -> 13
       [] OTHER -> 31 + (CHOOSE k \in 1..95 : AsciiChars[k] = c)]

\* a bytes literal b"..." of ASCII characters
Bytes(s) == [k \in 1..Len(s) |-> OrdTable[s[k]]]

\* ---------------------------------------------------------------------
\* Canonical text and similarity
\* ---------------------------------------------------------------------
\* str.casefold() and str.lower() of a character, and the case folding of
\* re.IGNORECASE: the ASCII letters; other characters map to themselves
Casefold(c) ==
  IF c \in DOMAIN OrdTable /\ OrdTable[c] \in 65..90 THEN Chr(OrdTable[c] + 32) ELSE c

\* re.sub(r"\n[ \t]*-\s*", "\n", s): a newline, blanks, a hyphen and all the
\* whitespace after it become one newline
RECURSIVE BulletPrefixSub(_)
BulletPrefixSub(s) ==
  IF s = <<>> THEN s
  ELSE LET d == 2 + BlankSpan(s, 2)
       IN  IF Head(s) = "\n" /\ d <= Len(s) /\ s[d] = "-"
           THEN <<"\n">> \o BulletPrefixSub(Drop(s, d + SpaceSpan(s, d + 1)))
           ELSE <<Head(s)>> \o BulletPrefixSub(Tail(s))

\* re.sub(r"\s+", " ", s)
RECURSIVE WhitespaceSub(_)
WhitespaceSub(s) ==
  IF s = <<>> THEN s
  ELSE LET n == SpaceSpan(s, 1)
       IN  IF n >= 1 THEN <<" ">> \o WhitespaceSub(Drop(s, n))
           ELSE <<Head(s)>> \o WhitespaceSub(Tail(s))

\* An absent text (None) and the empty text are both the empty sequence: the
\* source only ever tests them with `not text`.
_canonical_capture_text(text) ==
  IF text = <<>> THEN <<>>
  ELSE LET c1 == _normalize_captured_text(text)
           c2 == StrReplace(c1, <<BULLET>>, <<"-">>)
           c3 == BulletPrefixSub(c2)
           c4 == WhitespaceSub(c3)
           c5 == RStrip(LStrip(c4))
       IN  [i \in 1..Len(c5) |-> Casefold(c5[i])]

\* SequenceMatcher.find_longest_match on a[alo..ahi], b[blo..bhi] (inclusive,
\* 1-based; no junk, autojunk needs 200 characters): the longest common block,
\* of those the one starting earliest in a, of those the earliest in b, as
\* <<i, j, size>>; size 0 when there is none
find_longest_match(a, b, alo, ahi, blo, bhi) ==
  LET blocks == {m \in (alo..ahi) \X (blo..bhi) \X (1..(ahi - alo + 1)) :
                   /\ m[1] + m[3] - 1 <= ahi
                   /\ m[2] + m[3] - 1 <= bhi
                   /\ SubSeq(a, m[1], m[1] + m[3] - 1) = SubSeq(b, m[2], m[2] + m[3] - 1)}
      Better(m, n) == \/ m[3] > n[3]
                      \/ m[3] = n[3] /\ m[1] < n[1]
                      \/ m[3] = n[3] /\ m[1] = n[1] /\ m[2] < n[2]
  IN  IF blocks = {} THEN <<alo, blo, 0>>
      ELSE CHOOSE m \in blocks : \A n \in blocks : n = m \/ Better(m, n)

\* sum of the sizes of SequenceMatcher.get_matching_blocks: the longest block,
\* then the same to its left and to its right
RECURSIVE MatchedSize(_, _, _, _, _, _)
MatchedSize(a, b, alo, ahi, blo, bhi) ==
  IF alo > ahi \/ blo > bhi THEN 0
  ELSE LET m == find_longest_match(a, b, alo, ahi, blo, bhi)
       IN  IF m[3] = 0 THEN 0
           ELSE m[3] + MatchedSize(a, b, alo, m[1] - 1, blo, m[2] - 1)
                     + MatchedSize(a, b, m[1] + m[3], ahi, m[2] + m[3], bhi)

\* A ratio is the pair <<numerator, denominator>>, denominator > 0; the floats
\* of the source are quotients of small integers, which compare as the
\* fractions do.
RatioLess(x, y) == x[1] * y[2] < y[1] * x[2]
RatioEq(x, y) == x[1] * y[2] = y[1] * x[2]

\* _capture_similarity: SequenceMatcher(None, text_a, text_b).ratio() = 2.0 * M / T
_capture_similarity(text_a, text_b) ==
  IF text_a = <<>> \/ text_b = <<>> THEN <<0, 1>>
  ELSE <<2 * MatchedSize(text_a, text_b, 1, Len(text_a), 1, Len(text_b)),
         Len(text_a) + Len(text_b)>>

\* ---------------------------------------------------------------------
\* Capture reconciler: _read_clipboard_capture
\* ---------------------------------------------------------------------
\* the absent capture (None)
None == [source |-> "None"]

\* "".join(text for text, _ in runs)
RECURSIVE JoinRuns(_)
JoinRuns(runs) == IF runs = <<>> THEN <<>> ELSE Head(runs)[1] \o JoinRuns(Tail(runs))

\* sum(len(text) for text, is_bold in runs if is_bold)
RECURSIVE BoldChars(_)
BoldChars(runs) ==
  IF runs = <<>> THEN 0
  ELSE (IF Head(runs)[2] THEN Len(Head(runs)[1]) ELSE 0) + BoldChars(Tail(runs))

\* any(is_bold for _, is_bold in runs)
AnyBold(runs) == \E i \in 1..Len(runs) : runs[i][2]

Abs(x) == IF x < 0 THEN -x ELSE x

\* the score tuple of a normalized, non-empty candidate (lines 2855-2870)
CandidateSimilarity(runs, canonical_plain_text) ==
  _capture_similarity(_canonical_capture_text(JoinRuns(runs)), canonical_plain_text)

CandidateScore(runs, canonical_plain_text) ==
  LET candidate_text      == JoinRuns(runs)
      candidate_canonical == _canonical_capture_text(candidate_text)
      similarity          == _capture_similarity(candidate_canonical, canonical_plain_text)
      length_delta        == Abs(Len(candidate_canonical) - Len(canonical_plain_text))
  IN  <<IF BoldChars(runs) > 0 THEN 1 ELSE 0, similarity, -length_delta, Len(candidate_text)>>

\* score > best_score on Python tuples: lexicographic
ScoreGreaterFirstOnly(s, t) == s[1] > t[1]
ScoreGreater(s, t) ==
  \/ s[1] > t[1]
  \/ s[1] = t[1] /\ RatioLess(t[2], s[2])
  \/ s[1] = t[1] /\ RatioEq(s[2], t[2]) /\ s[3] > t[3]
  \/ s[1] = t[1] /\ RatioEq(s[2], t[2]) /\ s[3] = t[3] /\ s[4] > t[4]

\* best_runs = None, best_score = (-1, -1.0, -10**9, -1), best_similarity = 0.0;
\* best_runs is only tested for truth, so None is the empty run list
InitialBest ==
  [best_runs |-> <<>>, best_score |-> <<-1, <<-1, 1>>, -(10^9), -1>>,
   best_similarity |-> <<0, 1>>]

\* A parse outcome is what ClipboardHtmlRunParser made of one fragment
\* candidate: it raised, or it left parser.runs.
Raised == [raised |-> TRUE, runs |-> <<>>]
Parsed(runs) == [raised |-> FALSE, runs |-> runs]

\* lines 2848-2849: the best candidate so far after a parse that raised
LoopAbandoned(best) == InitialBest
CandidateSkipped(best) == best

\* one iteration of the candidate loop (lines 2843-2874)
ScoreCandidate(best, outcome, canonical_plain_text) ==
  IF outcome.raised THEN CandidateSkipped(best)
  ELSE LET runs == _normalize_captured_runs(outcome.runs)
       IN  IF runs = <<>> \/ JoinRuns(runs) = <<>> THEN best
           ELSE LET score == CandidateScore(runs, canonical_plain_text)
                IN  IF ScoreGreater(score, best.best_score)
                    THEN [best_runs |-> runs, best_score |-> score,
                          best_similarity |-> score[2]]
                    ELSE best

\* the whole loop over fragment_candidates
RECURSIVE BestCandidate(_, _, _)
BestCandidate(best, outcomes, canonical_plain_text) ==
  IF outcomes = <<>> THEN best
  ELSE BestCandidate(ScoreCandidate(best, Head(outcomes), canonical_plain_text),
                     Tail(outcomes), canonical_plain_text)

\* best_similarity >= 0.28
SimilarityThreshold == <<28, 100>>

\* lines 2876-2882
AcceptAlways(best, canonical_plain_text) ==
  IF best.best_runs # <<>>
  THEN [source |-> "html", text |-> JoinRuns(best.best_runs), runs |-> best.best_runs,
        signature |-> <<"html", best.best_runs>>]
  ELSE None
AcceptHtmlCapture(best, canonical_plain_text) ==
  IF /\ best.best_runs # <<>>
     /\ \/ canonical_plain_text = <<>>
        \/ ~RatioLess(best.best_similarity, SimilarityThreshold)
  THEN [source |-> "html", text |-> JoinRuns(best.best_runs), runs |-> best.best_runs,
        signature |-> <<"html", best.best_runs>>]
  ELSE None

\* lines 2759-2765: what _read_clipboard_rtf_runs returns for the outcome of
\* parser.parse
_read_clipboard_rtf_runs(outcome) ==
  IF outcome.raised THEN <<>> ELSE _normalize_captured_runs(outcome.runs)

\* lines 2884-2894
RtfCapture(rtf_runs) ==
  IF rtf_runs # <<>> /\ JoinRuns(rtf_runs) # <<>>
  THEN [source |-> "rtf", text |-> JoinRuns(rtf_runs), runs |-> rtf_runs,
        signature |-> <<"rtf", rtf_runs>>]
  ELSE None

\* lines 2896-2903: the rich capture returned, None when the plain-text
\* fallback is next
SelectLegacyFirst(html_capture, rtf_capture) ==
  IF rtf_capture # None THEN rtf_capture
  ELSE html_capture
SelectRichCapture(html_capture, rtf_capture) ==
  IF html_capture # None /\ AnyBold(html_capture.runs) THEN html_capture
  ELSE IF rtf_capture # None /\ AnyBold(rtf_capture.runs) THEN rtf_capture
  ELSE IF html_capture # None THEN html_capture
  ELSE IF rtf_capture # None THEN rtf_capture
  ELSE None

\* lines 2905-2909: the plain-text fallback is built only when no rich capture
\* was returned and there is a plain text
FallbackWithoutText(rich, text) == rich = None
NeedsTextFallback(rich, text) == rich = None /\ text # <<>>

\* keyword in name.casefold(): the format names that contain "html" and
\* "rtf"; "Rich Text Format" and "CF_UNICODETEXT" contain neither
HtmlLikeNames == {"HTML Format", "text/html", "CF_HTML", "HTML"}
RtfLikeNames == {"text/rtf", "application/rtf", "RTF"}

\* available_formats[:6]
VisibleFormatCount == 6

\* lines 2909-2925: the fallback capture over the plain text.  detail is the
\* pair of the message chosen and the names it lists.
TextCapture(text, available_formats) ==
  LET has_html_like == \E i \in 1..Len(available_formats) : available_formats[i] \in HtmlLikeNames
      has_rtf_like  == \E i \in 1..Len(available_formats) : available_formats[i] \in RtfLikeNames
      visible_formats ==
        IF available_formats # <<>>
        THEN SubSeq(available_formats, 1,
                    IF Len(available_formats) < VisibleFormatCount
                    THEN Len(available_formats) ELSE VisibleFormatCount)
        ELSE <<"none">>
  IN  [source |-> "text", text |-> text, runs |-> <<<<text, FALSE>>>>,
       signature |-> <<"text", text>>,
       detail |-> <<IF has_html_like \/ has_rtf_like
                    THEN "fant html/rtf format men klarte ikke lese bold"
                    ELSE "ingen html/rtf format i clipboard",
                    visible_formats>>]

\* _read_clipboard_text on the text Tk returns: normalized and stripped; the
\* empty sequence is None
_read_clipboard_text(text) == RStrip(LStrip(_normalize_captured_text(text)))

\* ---------------------------------------------------------------------
\* Format reader: the pure parts
\* ---------------------------------------------------------------------
\* for _ in range(CLIPBOARD_OPEN_RETRIES): another OpenClipboard call is made
\* while fewer than CLIPBOARD_OPEN_RETRIES were made
RetryBudgetOffByOne(n) == n <= CLIPBOARD_OPEN_RETRIES
RetryBudgetLeft(n) == n < CLIPBOARD_OPEN_RETRIES

\* where control goes from the try body of _read_clipboard_format_bytes and of
\* _clipboard_available_format_names: every exit runs the finally clause
AfterReadLeak(exit_path) == IF exit_path = "null_handle" THEN "return" ELSE "close"
AfterRead(exit_path) == "close"

\* _close_clipboard_quietly: CloseClipboard, errors swallowed
CloseWithoutRelease(h) == h
_close_clipboard_quietly(h) == h - 1

\* both callers of _read_clipboard_format_bytes pass a keyword
HasKeyword(operation) == operation \in {"html", "rtf"}

\* the absent signature (None)
NoSignature == <<"None">>

\* ---------------------------------------------------------------------
\* Byte decoder (_decode_clipboard_bytes)
\* ---------------------------------------------------------------------
\* the code point cp1252 gives a byte; -1 where the codec has no character
Cp1252(b) ==
  LET high ==
        <<8364, -1, 8218, 402, 8222, 8230, 8224, 8225, 710, 8240, 352, 8249, 338, -1, 381, -1,
          -1, 8216, 8217, 8220, 8221, 8226, 8211, 8212, 732, 8482, 353, 8250, 339, -1, 382, 376>>
  IN  IF b \in 128..159 THEN high[b - 127] ELSE b

\* data.decode(encoding): [ok |-> TRUE, text |-> the string], or ok |-> FALSE
\* where bytes.decode raises UnicodeDecodeError; "utf-8 ignore" is
\* data.decode("utf-8", errors="ignore")
Codec(encoding, d) ==
  LET Error == [ok |-> FALSE, text |-> <<>>]
      Decoded(cps) == [ok |-> TRUE, text |-> [k \in 1..Len(cps) |-> Chr(cps[k])]]
      IsCont(j) == j <= Len(d) /\ d[j] \in 128..191
      \* the UTF-8 sequence that starts at d[k]: <<code point, bytes used>>, or
      \* <<-1, bytes the error spans>> where it is invalid or cut off
      Utf8Unit(k) ==
        LET b == d[k]
        IN  IF b < 128 THEN <<b, 1>>
            ELSE IF b \in 194..223 THEN
              IF IsCont(k + 1) THEN <<(b - 192) * 64 + (d[k + 1] - 128), 2>> ELSE <<-1, 1>>
            ELSE IF b \in 224..239 THEN
              IF ~(IsCont(k + 1) /\ (b = 224 => d[k + 1] >= 160)
                     /\ (b = 237 => d[k + 1] <= 159))
              THEN <<-1, 1>>
              ELSE IF ~IsCont(k + 2) THEN <<-1, 2>>
              ELSE <<(b - 224) * 4096 + (d[k + 1] - 128) * 64 + (d[k + 2] - 128), 3>>
            ELSE IF b \in 240..244 THEN
              IF ~(IsCont(k + 1) /\ (b = 240 => d[k + 1] >= 144)
                     /\ (b = 244 => d[k + 1] <= 143))
              THEN <<-1, 1>>
              ELSE IF ~IsCont(k + 2) THEN <<-1, 2>>
              ELSE IF ~IsCont(k + 3) THEN <<-1, 3>>
              ELSE <<(b - 240) * 262144 + (d[k + 1] - 128) * 4096
                       + (d[k + 2] - 128) * 64 + (d[k + 3] - 128), 4>>
            ELSE <<-1, 1>>
      RECURSIVE Utf8(_, _, _)
      Utf8(k, ignore, cps) ==
        IF k > Len(d) THEN Decoded(cps)
        ELSE LET u == Utf8Unit(k)
                 \* the ASCII bytes from d[k] on stand for themselves
                 others == {j \in k..Len(d) : d[j] >= 128}
                 ascii == IF others = {} THEN Len(d) - k + 1
                          ELSE (CHOOSE j \in others : \A i \in others : j <= i) - k
             IN  IF ascii > 0
                 THEN Utf8(k + ascii, ignore, cps \o SubSeq(d, k, k + ascii - 1))
                 ELSE IF u[1] >= 0 THEN Utf8(k + u[2], ignore, Append(cps, u[1]))
                 ELSE IF ignore THEN Utf8(k + u[2], ignore, cps)
                 ELSE Error
      \* the 16-bit units of the bytes from d[from] on
      Units(from, little) ==
        [j \in 1..((Len(d) - from + 1) \div 2) |->
           LET lo == d[from + 2 * j - 2]
               hi == d[from + 2 * j - 1]
           IN  IF little THEN lo + 256 * hi ELSE 256 * lo + hi]
      \* surrogate pairs joined; a lone surrogate is an error
      RECURSIVE Joined(_, _, _)
      Joined(u, k, cps) ==
        IF k > Len(u) THEN Decoded(cps)
        ELSE IF u[k] \in 55296..56319 THEN
          IF k < Len(u) /\ u[k + 1] \in 56320..57343
          THEN Joined(u, k + 2,
                      Append(cps, 65536 + (u[k] - 55296) * 1024 + (u[k + 1] - 56320)))
          ELSE Error
        ELSE IF u[k] \in 56320..57343 THEN Error
        ELSE Joined(u, k + 1, Append(cps, u[k]))
      \* an odd number of bytes is truncated data
      Utf16(from, little) ==
        IF (Len(d) - from + 1) % 2 = 1 THEN Error ELSE Joined(Units(from, little), 1, <<>>)
  IN  CASE encoding = "utf-8" -> Utf8(1, FALSE, <<>>)
        [] encoding = "utf-8 ignore" -> Utf8(1, TRUE, <<>>)
        [] encoding = "cp1252" ->
             IF \E k \in 1..Len(d) : Cp1252(d[k]) < 0 THEN Error
             ELSE Decoded([k \in 1..Len(d) |-> Cp1252(d[k])])
        [] encoding = "latin1" -> Decoded(d)
        [] encoding = "utf-16le" -> Utf16(1, TRUE)
        [] encoding = "utf-16be" -> Utf16(1, FALSE)
        \* a byte-order mark selects the order and is dropped; without one the
        \* order is the machine's, little-endian where the clipboard API exists
        [] encoding = "utf-16" ->
             IF Len(d) >= 2 /\ d[1] = 255 /\ d[2] = 254 THEN Utf16(3, TRUE)
             ELSE IF Len(d) >= 2 /\ d[1] = 254 /\ d[2] = 255 THEN Utf16(3, FALSE)
             ELSE Utf16(1, TRUE)

\* re.sub(rb"\x00+$", b"", data): $ matches at the end and before a final "\n"
TrimPaddingNulls(data) ==
  LET RECURSIVE StripZeros(_)
      StripZeros(b) ==
        IF b # <<>> /\ b[Len(b)] = 0 THEN StripZeros(SubSeq(b, 1, Len(b) - 1)) ELSE b
      n == Len(data)
  IN  IF n >= 2 /\ data[n] = 10 /\ data[n - 1] = 0
      THEN StripZeros(SubSeq(data, 1, n - 1)) \o <<10>>
      ELSE StripZeros(data)

\* bytes of the sample that decide the classification (line 2562)
SAMPLE_BYTES == 1024
\* shortest sample that is classified (lines 2563, 2575)
MIN_SAMPLE_BYTES == 8

\* zero bytes and lengths of sample[0::2] and sample[1::2]
ZeroCounts(blob) ==
  LET sample == SubSeq(blob, 1, IF Len(blob) < SAMPLE_BYTES THEN Len(blob) ELSE SAMPLE_BYTES)
      even == [k \in 1..((Len(sample) + 1) \div 2) |-> sample[2 * k - 1]]
      odd == [k \in 1..(Len(sample) \div 2) |-> sample[2 * k]]
      Zeros(s) == Cardinality({k \in 1..Len(s) : s[k] = 0})
  IN  [sampled |-> Len(sample), even_zero |-> Zeros(even), even_len |-> Len(even),
       odd_zero |-> Zeros(odd), odd_len |-> Len(odd)]

\* odd_zero > 0.55 and even_zero < 0.25, the fractions compared as
\* zero / len > 55 / 100 and zero / len < 25 / 100
LooksLeAbove75(blob) ==
  LET z == ZeroCounts(blob)
  IN  /\ z.sampled >= MIN_SAMPLE_BYTES
      /\ z.even_len > 0 /\ z.odd_len > 0
      /\ z.odd_zero * 100 > 75 * z.odd_len
      /\ z.even_zero * 100 < 25 * z.even_len
looks_like_utf16le(blob) ==
  LET z == ZeroCounts(blob)
  IN  /\ z.sampled >= MIN_SAMPLE_BYTES
      /\ z.even_len > 0 /\ z.odd_len > 0
      /\ z.odd_zero * 100 > 55 * z.odd_len
      /\ z.even_zero * 100 < 25 * z.even_len

looks_like_utf16be(blob) ==
  LET z == ZeroCounts(blob)
  IN  /\ z.sampled >= MIN_SAMPLE_BYTES
      /\ z.even_len > 0 /\ z.odd_len > 0
      /\ z.even_zero * 100 > 55 * z.even_len
      /\ z.odd_zero * 100 < 25 * z.odd_len

starts_with_bom(data) ==
  Len(data) >= 2 /\ (<<data[1], data[2]>> = <<255, 254>> \/ <<data[1], data[2]>> = <<254, 255>>)

\* the bytes that are decoded and the codecs tried on them, in order
DecodePlan(raw_data) ==
  LET looks_le == looks_like_utf16le(raw_data)
      looks_be == looks_like_utf16be(raw_data)
      even_length == IF Len(raw_data) % 2 = 1 THEN SubSeq(raw_data, 1, Len(raw_data) - 1)
                     ELSE raw_data
  IN  IF starts_with_bom(raw_data)
        THEN [data |-> raw_data, encodings |-> <<"utf-16", "utf-8", "cp1252", "latin1">>]
      ELSE IF looks_le
        THEN [data |-> even_length,
              encodings |-> <<"utf-16le", "utf-16", "utf-8", "cp1252", "latin1">>]
      ELSE IF looks_be
        THEN [data |-> even_length,
              encodings |-> <<"utf-16be", "utf-16", "utf-8", "cp1252", "latin1">>]
      ELSE [data |-> TrimPaddingNulls(raw_data),
            encodings |-> <<"utf-8", "cp1252", "latin1", "utf-16le">>]

\* decoded.replace("\x00", "")
KeepNul(decoded) == decoded
RemoveNul(decoded) == SelectSeq(decoded, LAMBDA c : c # NUL)

\* _decode_clipboard_bytes, with the codec that produced the string: the
\* first codec of the plan that decodes (lines 2606-2614), else the decoding
\* that ignores errors (lines 2616-2617)
DecodeResult(raw_data) ==
  LET plan == DecodePlan(raw_data)
      RECURSIVE First(_)
      First(k) ==
        IF k > Len(plan.encodings)
        THEN [codec |-> "utf-8 ignore",
              text |-> RemoveNul(Codec("utf-8 ignore", plan.data).text)]
        ELSE LET decoded == Codec(plan.encodings[k], plan.data)
             IN  IF decoded.ok
                 THEN [codec |-> plan.encodings[k], text |-> RemoveNul(decoded.text)]
                 ELSE First(k + 1)
  IN  IF raw_data = <<>> THEN [codec |-> "none", text |-> <<>>] ELSE First(1)

_decode_clipboard_bytes(raw_data) == DecodeResult(raw_data).text

\* ---------------------------------------------------------------------
\* Searching in bytes and in text
\* ---------------------------------------------------------------------
\* s.startswith(pat, k - 1): pat occurs in s at position k, counted from 1
MatchAt(s, pat, k) ==
  k >= 1 /\ k + Len(pat) - 1 <= Len(s) /\ \A j \in 1..Len(pat) : s[k + j - 1] = pat[j]

\* the first position from `from` on where pat occurs in s, 0 where s.find
\* gives -1 and re.search gives None
Find(s, pat, from) ==
  LET hits == {k \in from..(Len(s) - Len(pat) + 1) : MatchAt(s, pat, k)}
  IN  IF hits = {} THEN 0 ELSE CHOOSE k \in hits : \A j \in hits : k <= j

\* how many elements of s from position k on are in the class (a greedy
\* [class]*), and how many are outside it ([^class]*)
Span(s, k, class) ==
  LET stops == {j \in k..Len(s) : s[j] \notin class}
  IN  IF k > Len(s) THEN 0
      ELSE IF stops = {} THEN Len(s) - k + 1
      ELSE (CHOOSE j \in stops : \A i \in stops : j <= i) - k

SpanNot(s, k, class) ==
  LET stops == {j \in k..Len(s) : s[j] \in class}
  IN  IF k > Len(s) THEN 0
      ELSE IF stops = {} THEN Len(s) - k + 1
      ELSE (CHOOSE j \in stops : \A i \in stops : j <= i) - k

\* int() of the n digits of s from position k on; zero is the digit 0 of s
\* (the byte 48, or 0 for digit values)
RECURSIVE Number(_, _, _, _)
Number(s, k, n, zero) ==
  IF n = 0 THEN 0 ELSE Number(s, k, n - 1, zero) * 10 + (s[k + n - 1] - zero)

\* s[start:end] for 0 <= start <= end <= len(s)
Slice(s, start, end) == SubSeq(s, start + 1, end)

\* str.casefold() of a text, and the text re.IGNORECASE matches against
Lowered(text) == [k \in 1..Len(text) |-> Casefold(text[k])]

\* the character classes of the regular expressions, over the characters of
\* the model: \s, [0-9], [A-Za-z0-9_-], \w and the letters
CharClass ==
  LET letters == {AsciiChars[k] : k \in (34..59) \cup (66..91)}
      digits == {AsciiChars[k] : k \in 17..26}
  IN  [space |-> {" ", "\t", "\n", "\r", NBSP, NNBSP},
       digit |-> digits,
       name |-> letters \cup digits \cup {"_", "-"},
       word |-> letters \cup digits \cup {"_"},
       letter |-> letters]

\* ---------------------------------------------------------------------
\* Markup fragment extractor
\* ---------------------------------------------------------------------
\* the literals of _read_clipboard_html_fragment (bytes) and of
\* _extract_html_fragment_from_text (text, lower case as IGNORECASE compares)
Literal ==
  [StartHTML |-> Bytes(<<"S", "t", "a", "r", "t", "H", "T", "M", "L", ":">>),
   EndHTML |-> Bytes(<<"E", "n", "d", "H", "T", "M", "L", ":">>),
   StartFragment |-> Bytes(<<"S", "t", "a", "r", "t", "F", "r", "a", "g", "m", "e", "n", "t", ":">>),
   EndFragment |-> Bytes(<<"E", "n", "d", "F", "r", "a", "g", "m", "e", "n", "t", ":">>),
   start_marker |->
     Bytes(<<"<", "!", "-", "-", "S", "t", "a", "r", "t", "F", "r", "a", "g", "m", "e", "n", "t", "-", "-", ">">>),
   end_marker |->
     Bytes(<<"<", "!", "-", "-", "E", "n", "d", "F", "r", "a", "g", "m", "e", "n", "t", "-", "-", ">">>),
   comment_open |-> <<"<", "!", "-", "-">>,
   comment_close |-> <<"-", "-", ">">>,
   startfragment |-> <<"s", "t", "a", "r", "t", "f", "r", "a", "g", "m", "e", "n", "t">>,
   endfragment |-> <<"e", "n", "d", "f", "r", "a", "g", "m", "e", "n", "t">>,
   body_open |-> <<"<", "b", "o", "d", "y">>,
   body_close |-> <<"<", "/", "b", "o", "d", "y", ">">>]

\* re.search(name + rb"(\d+)", data): int() of the digits of the first match,
\* -1 where there is no match
HeaderOffset(data, name) ==
  LET Digits(k) == Span(data, k + Len(name), 48..57)
      hits == {k \in 1..Len(data) : MatchAt(data, name, k) /\ Digits(k) > 0}
  IN  IF hits = {} THEN -1
      ELSE LET k == CHOOSE h \in hits : \A j \in hits : h <= j
           IN  Number(data, k + Len(name), Digits(k), 48)

\* 0 <= start < end <= len(compact)
OffsetsValidBelowEnd(start, end, length) == 0 <= start /\ start < end /\ end < length
OffsetsValid(start, end, length) == 0 <= start /\ start < end /\ end <= length

\* lines 2657-2686: html_bytes, fragment_bytes and the assignment that set
\* fragment_bytes last
FragmentBytes(raw_data) ==
  LET compact == TrimPaddingNulls(raw_data)
      html_start == HeaderOffset(compact, Literal.StartHTML)
      html_end == HeaderOffset(compact, Literal.EndHTML)
      whole == IF html_start >= 0 /\ html_end >= 0
                    /\ OffsetsValid(html_start, html_end, Len(compact))
               THEN Slice(compact, html_start, html_end)
               ELSE compact
      start == HeaderOffset(compact, Literal.StartFragment)
      end == HeaderOffset(compact, Literal.EndFragment)
      marker_start == Find(whole, Literal.start_marker, 1) - 1
      marker_end == Find(whole, Literal.end_marker, 1) - 1
  IN  IF start >= 0 /\ end >= 0
      THEN IF OffsetsValid(start, end, Len(compact))
           THEN [html_bytes |-> whole, fragment_bytes |-> Slice(compact, start, end),
                 by |-> "offsets"]
           ELSE [html_bytes |-> whole, fragment_bytes |-> whole, by |-> "invalid offsets"]
      ELSE IF marker_start # -1 /\ marker_end # -1 /\ marker_end > marker_start
           THEN [html_bytes |-> whole,
                 fragment_bytes |->
                   Slice(whole, marker_start + Len(Literal.start_marker), marker_end),
                 by |-> "markers"]
           ELSE [html_bytes |-> whole, fragment_bytes |-> whole, by |-> "no markers"]

_extract_html_fragment_from_text(html_text) ==
  LET low == Lowered(html_text)
      \* the length of <!--\s*word\s*--> at position k, 0 where it does not match
      Marker(k, word) ==
        LET a == k + 4 + Span(low, k + 4, CharClass.space)
            b == a + Len(word) + Span(low, a + Len(word), CharClass.space)
        IN  IF MatchAt(low, Literal.comment_open, k) /\ MatchAt(low, word, a)
                 /\ MatchAt(low, Literal.comment_close, b)
            THEN b + 3 - k ELSE 0
      First(S) == IF S = {} THEN 0 ELSE CHOOSE k \in S : \A j \in S : k <= j
      m_start == First({k \in 1..Len(low) : Marker(k, Literal.startfragment) > 0})
      m_inner == m_start + Marker(m_start, Literal.startfragment)
      m_end == IF m_start = 0 THEN 0
               ELSE First({k \in m_inner..Len(low) : Marker(k, Literal.endfragment) > 0})
      \* word:(\d+) at position k: the number of digits
      Header(k, word) ==
        IF MatchAt(low, word \o <<":">>, k) THEN Span(low, k + Len(word) + 1, CharClass.digit)
        ELSE 0
      Value(k, word) ==
        Number([j \in 1..Len(low) |-> IF low[j] \in CharClass.digit THEN OrdTable[low[j]] ELSE 0],
               k + Len(word) + 1, Header(k, word), 48)
      o_start == First({k \in 1..Len(low) : Header(k, Literal.startfragment) > 0})
      o_end == IF o_start = 0 THEN 0
               ELSE First({k \in (o_start + Len(Literal.startfragment) + 1
                                    + Header(o_start, Literal.startfragment))..Len(low) :
                             Header(k, Literal.endfragment) > 0})
      start == Value(o_start, Literal.startfragment)
      end == Value(o_end, Literal.endfragment)
      \* <body[^>]*>
      b_open == Find(low, Literal.body_open, 1)
      b_tag_end == IF b_open = 0 THEN 0 ELSE Find(low, <<">">>, b_open + 5)
      b_close == IF b_tag_end = 0 THEN 0 ELSE Find(low, Literal.body_close, b_tag_end + 1)
  IN  IF html_text = <<>> THEN <<>>
      ELSE IF m_start > 0 /\ m_end > 0 THEN SubSeq(html_text, m_inner, m_end - 1)
      ELSE IF o_start > 0 /\ o_end > 0 /\ OffsetsValid(start, end, Len(html_text))
        THEN Slice(html_text, start, end)
      ELSE IF b_close > 0 THEN SubSeq(html_text, b_tag_end + 1, b_close - 1)
      ELSE html_text

\* ---------------------------------------------------------------------
\* Style predicate and style maps
\* ---------------------------------------------------------------------
\* str.strip()
Strip(s) == RStrip(LStrip(s))

\* the literals of the style predicate and of the style map builder
CssLiteral ==
  [var |-> <<"v", "a", "r", "(">>,
   important |-> <<"!", "i", "m", "p", "o", "r", "t", "a", "n", "t">>,
   font |-> <<"f", "o", "n", "t">>,
   font_weight |-> <<"f", "o", "n", "t", "-", "w", "e", "i", "g", "h", "t">>,
   font_variation_settings |->
     <<"f", "o", "n", "t", "-", "v", "a", "r", "i", "a", "t", "i", "o", "n", "-", "s", "e", "t", "t", "i", "n", "g", "s">>,
   font_family |-> <<"f", "o", "n", "t", "-", "f", "a", "m", "i", "l", "y">>,
   wght |-> <<"w", "g", "h", "t">>,
   bold |-> <<"b", "o", "l", "d">>,
   bolder |-> <<"b", "o", "l", "d", "e", "r">>,
   semibold |-> <<"s", "e", "m", "i", "b", "o", "l", "d">>,
   demibold |-> <<"d", "e", "m", "i", "b", "o", "l", "d">>,
   medium |-> <<"m", "e", "d", "i", "u", "m">>,
   black |-> <<"b", "l", "a", "c", "k">>,
   style_open |-> <<"<", "s", "t", "y", "l", "e">>,
   style_close |-> <<"<", "/", "s", "t", "y", "l", "e", ">">>]

\* the deepest call of _resolve_css_value that still resolves (line 163)
RESOLVE_DEPTH == 6

DepthExceededLate(depth) == depth > RESOLVE_DEPTH + 1
DepthExceeded(depth) == depth > RESOLVE_DEPTH

\* css_vars.get(var_name, ""); the table is the dict as the sequence of its
\* <<name, value>> items
Lookup(table, var_name) ==
  LET hits == {k \in 1..Len(table) : table[k][1] = var_name}
  IN  IF hits = {} THEN <<>> ELSE table[CHOOSE k \in hits : TRUE][2]

\* one call of _resolve_css_value: the text it returns, or the value it
\* passes to the call of depth + 1
ResolveLevel(value, table, depth) ==
  LET \* the outcome, given the positions of the parts of the match
      Outcome(stripped, text, name_at, name_len, after_name, fallback_len) ==
        LET named == MatchAt(text, CssLiteral.var, 1) /\ MatchAt(text, <<"-", "-">>, name_at)
                       /\ name_len > 2
            plain == named /\ MatchAt(text, <<")">>, after_name)
            with_fallback == named /\ MatchAt(text, <<",">>, after_name) /\ fallback_len > 0
                               /\ MatchAt(text, <<")">>, after_name + 1 + fallback_len)
            var_name == Lowered(SubSeq(text, name_at, name_at + name_len - 1))
            fallback == IF with_fallback
                        THEN Strip(SubSeq(text, after_name + 1, after_name + fallback_len))
                        ELSE <<>>
            Resolved(found) == IF found # <<>> THEN found ELSE fallback
        IN  IF DepthExceeded(depth) THEN [returns |-> TRUE, text |-> stripped]
            ELSE IF stripped = <<>> THEN [returns |-> TRUE, text |-> <<>>]
            ELSE IF plain \/ with_fallback
              THEN [returns |-> FALSE, text |-> Resolved(Lookup(table, var_name))]
            ELSE [returns |-> TRUE, text |-> text]
      \* var\(\s*(--[A-Za-z0-9_-]+)\s*(?:,\s*([^)]+))?\)
      AfterName(stripped, text, name_at, name_len, after_name) ==
        Outcome(stripped, text, name_at, name_len, after_name,
                SpanNot(text, after_name + 1, {")"}))
      NameLen(stripped, text, name_at, name_len) ==
        AfterName(stripped, text, name_at, name_len,
                  name_at + name_len + Span(text, name_at + name_len, CharClass.space))
      NameAt(stripped, text, name_at) ==
        NameLen(stripped, text, name_at, 2 + Span(text, name_at + 2, CharClass.name))
      Text(stripped, text) == NameAt(stripped, text, 5 + Span(text, 5, CharClass.space))
      \* re.sub(r"\s*!important\s*$", "", text, flags=re.IGNORECASE).strip()
      Stripped(stripped) ==
        LET n == Len(stripped) - Len(CssLiteral.important)
        IN  Text(stripped,
                 IF n >= 0 /\ MatchAt(Lowered(stripped), CssLiteral.important, n + 1)
                 THEN Strip(SubSeq(stripped, 1, n))
                 ELSE stripped)
  IN  Stripped(Strip(value))

RECURSIVE _resolve_css_value(_, _, _)
_resolve_css_value(value, table, depth) ==
  LET Level(level) ==
        IF level.returns THEN level.text
        ELSE _resolve_css_value(level.text, table, depth + 1)
  IN  Level(ResolveLevel(value, table, depth))

\* re.search(name + r"\s*:\s*([^;]+)", lowered): group(1) of the first match.
\* The \s* after the colon takes the whitespace before the value; where
\* nothing but whitespace follows up to the ";" or the end, it gives the last
\* whitespace character back and group(1) is that character.
PropertyValue(lowered, name) ==
  LET Colon(k) == k + Len(name) + Span(lowered, k + Len(name), CharClass.space)
      ValueLen(k) == SpanNot(lowered, Colon(k) + 1, {";"})
      Blank(k) == Span(lowered, Colon(k) + 1, CharClass.space)
      Group(first, last) == [found |-> TRUE, text |-> SubSeq(lowered, first, last)]
      Match(k) == IF Blank(k) < ValueLen(k)
                  THEN Group(Colon(k) + 1 + Blank(k), Colon(k) + ValueLen(k))
                  ELSE Group(Colon(k) + ValueLen(k), Colon(k) + ValueLen(k))
      hits == {k \in 1..Len(lowered) :
                 MatchAt(lowered, name, k) /\ MatchAt(lowered, <<":">>, Colon(k))
                   /\ ValueLen(k) > 0}
  IN  IF hits = {} THEN [found |-> FALSE, text |-> <<>>]
      ELSE Match(CHOOSE h \in hits : \A j \in hits : h <= j)

_style_implies_bold(style_text, table) ==
  LET lowered == Lowered(style_text)
      Resolved(name) == _resolve_css_value(PropertyValue(lowered, name).text, table, 0)
      \* re.search(r"\b" + word + r"\b", text)
      HasWord(text, word) ==
        \E k \in 1..Len(text) :
          /\ MatchAt(text, word, k)
          /\ k = 1 \/ text[k - 1] \notin CharClass.word
          /\ k + Len(word) > Len(text) \/ text[k + Len(word)] \notin CharClass.word
      Digits(text) == [j \in 1..Len(text) |->
                         IF text[j] \in CharClass.digit THEN OrdTable[text[j]] ELSE 0]
      FontBold(font_value) ==
        \/ \E word \in {CssLiteral.bold, CssLiteral.bolder, CssLiteral.semibold,
                         CssLiteral.demibold, CssLiteral.black} :
             HasWord(font_value, word)
        \/ \E d \in {"5", "6", "7", "8", "9"} : HasWord(font_value, <<d, "0", "0">>)
      WeightBold(weight) ==
        \* re.match(r"([0-9]{3,4})", value)
        LET weight_digits == LET n == Span(weight, 1, CharClass.digit)
                             IN  IF n > 4 THEN 4 ELSE n
        IN  \/ weight \in {CssLiteral.bold, CssLiteral.bolder, CssLiteral.semibold,
                           CssLiteral.demibold, CssLiteral.medium, CssLiteral.black}
            \/ weight_digits >= 3 /\ Number(Digits(weight), 1, weight_digits, 48) >= 500
      VariationBold(variation) ==
        \* ['\"]?wght['\"]?\s*([0-9]{2,4}): where the digits of the match at k start
        LET WghtDigits(k) ==
              LET q == IF k + 4 <= Len(variation) /\ variation[k + 4] \in {"'", "\""}
                       THEN k + 5 ELSE k + 4
              IN  q + Span(variation, q, CharClass.space)
            WghtLen(k) ==
              LET n == Span(variation, WghtDigits(k), CharClass.digit)
              IN  IF n > 4 THEN 4 ELSE n
            wght_hits == {k \in 1..Len(variation) :
                            MatchAt(variation, CssLiteral.wght, k) /\ WghtLen(k) >= 2}
            wght == LET k == CHOOSE h \in wght_hits : \A j \in wght_hits : h <= j
                    IN  Number(Digits(variation), WghtDigits(k), WghtLen(k), 48)
        IN  wght_hits # {} /\ wght >= 500
      FamilyBold(family) ==
        \/ Find(family, CssLiteral.bold, 1) > 0
        \/ Find(family, CssLiteral.black, 1) > 0
  IN  /\ style_text # <<>>
      /\ \/ /\ PropertyValue(lowered, CssLiteral.font).found
            /\ FontBold(Resolved(CssLiteral.font))
         \/ /\ PropertyValue(lowered, CssLiteral.font_weight).found
            /\ WeightBold(Strip(Resolved(CssLiteral.font_weight)))
         \/ /\ PropertyValue(lowered, CssLiteral.font_variation_settings).found
            /\ VariationBold(Resolved(CssLiteral.font_variation_settings))
         \/ /\ PropertyValue(lowered, CssLiteral.font_family).found
            /\ FamilyBold(Resolved(CssLiteral.font_family))

\* css_vars[var_name.casefold()]: the key of a declared variable
TableKeyAsWritten(var_name) == var_name
TableKey(var_name) == Lowered(var_name)

_extract_html_style_maps(html_text) ==
  LET low == Lowered(html_text)
      braces == {"{", "}"}
      \* re.findall(r"<style[^>]*>(.*?)</style>", html_text, IGNORECASE | DOTALL)
      RECURSIVE Blocks(_)
      Blocks(from) ==
        LET open == Find(low, CssLiteral.style_open, from)
            tag_end == IF open = 0 THEN 0 ELSE Find(low, <<">">>, open + 6)
            close == IF tag_end = 0 THEN 0 ELSE Find(low, CssLiteral.style_close, tag_end + 1)
        IN  IF close = 0 THEN <<>>
            ELSE <<SubSeq(html_text, tag_end + 1, close - 1)>> \o Blocks(close + 8)
      \* re.findall(r"([^{}]+)\{([^{}]+)\}", block, DOTALL): <<selector, declarations>>
      RECURSIVE Rules(_, _)
      Rules(block, p) ==
        LET q == p + SpanNot(block, p, braces)
            r == q + 1 + SpanNot(block, q + 1, braces)
        IN  IF p > Len(block) THEN <<>>
            ELSE IF q > p /\ MatchAt(block, <<"{">>, q) /\ r > q + 1 /\ MatchAt(block, <<"}">>, r)
            THEN <<<<SubSeq(block, p, q - 1), SubSeq(block, q + 1, r - 1)>>>>
                   \o Rules(block, r + 1)
            ELSE Rules(block, q + 1)
      RECURSIVE AllRules(_)
      AllRules(blocks) ==
        IF blocks = <<>> THEN <<>> ELSE Rules(Head(blocks), 1) \o AllRules(Tail(blocks))
      rules == AllRules(Blocks(1))
      Put(table, name, value) ==
        IF \E k \in 1..Len(table) : table[k][1] = name
        THEN [k \in 1..Len(table) |-> IF table[k][1] = name THEN <<name, value>> ELSE table[k]]
        ELSE Append(table, <<name, value>>)
      \* re.findall(r"(--[A-Za-z0-9_-]+)\s*:\s*([^;]+)", declarations, IGNORECASE)
      RECURSIVE Declared(_, _, _)
      Declared(decl, from, table) ==
        LET NameLen(k) == 2 + Span(decl, k + 2, CharClass.name)
            Colon(k) == k + NameLen(k) + Span(decl, k + NameLen(k), CharClass.space)
            ValueLen(k) == SpanNot(decl, Colon(k) + 1, {";"})
            hits == {k \in from..Len(decl) :
                       MatchAt(decl, <<"-", "-">>, k) /\ NameLen(k) > 2
                         /\ MatchAt(decl, <<":">>, Colon(k)) /\ ValueLen(k) > 0}
        IN  IF hits = {} THEN table
            ELSE LET k == CHOOSE h \in hits : \A j \in hits : h <= j
                 IN  Declared(decl, Colon(k) + 1 + ValueLen(k),
                              Put(table, TableKey(SubSeq(decl, k, k + NameLen(k) - 1)),
                                  Strip(SubSeq(decl, Colon(k) + 1, Colon(k) + ValueLen(k)))))
      RECURSIVE Variables(_, _)
      Variables(k, table) ==
        IF k > Len(rules) THEN table ELSE Variables(k + 1, Declared(rules[k][2], 1, table))
      declared == Variables(1, <<>>)
      \* re.findall(r"\.([A-Za-z0-9_-]+)", selector_text)
      Classes(selector) ==
        {SubSeq(selector, k + 1, k + Span(selector, k + 1, CharClass.name)) :
           k \in {j \in 1..Len(selector) :
                    /\ selector[j] = "."
                    /\ Span(selector, j + 1, CharClass.name) > 0}}
  IN  [css_vars |-> declared,
       class_bold_map |->
         UNION {Classes(rules[k][1]) :
                  k \in {j \in 1..Len(rules) : _style_implies_bold(rules[j][2], declared)}}]

\* ---------------------------------------------------------------------
\* State
\* ---------------------------------------------------------------------
VARIABLES
  n_pc,      \* SpecNormalize: "input", "once", "twice"
  n_runs,    \* SpecNormalize: the run sequence given to the normalizer
  n_once,    \* SpecNormalize: _normalize_captured_runs(n_runs)
  n_twice,   \* SpecNormalize: _normalize_captured_runs(n_once)
  r_pc,      \* SpecReconcile: position in _read_clipboard_capture
  r_count,   \* SpecReconcile: fragment candidates taken by the loop so far
  r_best,    \* SpecReconcile: best_runs, best_score, best_similarity
  r_scored,  \* SpecReconcile: the score of every candidate that reached scoring
  r_raised,  \* SpecReconcile: on how many fragment candidates the parser raised
  r_rtf_raised, \* SpecReconcile: the legacy parser raised
  \* locals of _read_clipboard_capture (Spec and SpecReconcile)
  plain_text,      \* result of _read_clipboard_text (<<>> is None)
  html_capture,    \* the accepted markup capture or None
  rtf_capture,     \* the legacy capture or None
  capture,         \* what _read_clipboard_capture returns
  \* the clipboard (Spec)
  clip,            \* its content: plain text, markup payload, legacy payload
  other_holds,     \* another process has the clipboard open
  held,            \* OpenClipboard calls of this program not yet closed
  \* NoteOverlayApp (Spec)
  auto_capture_enabled,
  _last_clipboard_signature,
  doc,             \* the runs appended to the document, one entry per capture
  appended_since_change, \* captures appended since the clipboard content last changed
                         \* or auto-capture was last switched on
  tick_scheduled,  \* root.after has _clipboard_watch_tick pending
  \* the capture attempt in progress (Spec)
  pc,              \* position: idle, read_text, fb_enter, open, read, close, return, select, finish
  caller,          \* "tick" or "toggle"
  operation,       \* the clipboard operation running: html, rtf, names
  attempts,        \* OpenClipboard calls made by _open_clipboard_with_retry
  acquired,        \* successful opens of the running operation
  released,        \* CloseClipboard calls of the running operation
  exit_path,       \* how the running operation left its body
  raw_data,        \* what the running operation read
  format_ids,      \* the format names RegisterClipboardFormatW gave an id for
  contended,       \* an operation of this attempt exhausted the retry budget
  raised,          \* an exception is propagating out of the attempt
  \* SpecDecode
  d_pc,            \* "input", "done"
  d_raw,           \* the bytes given to _decode_clipboard_bytes
  d_looks_le,      \* looks_like_utf16le(d_raw)
  d_result,        \* the decoded string and the codec that produced it
  \* SpecFragment
  f_pc,            \* "input", "bytes", "done"
  f_header,        \* the header offsets written into the payload, -1 for none
  f_raw,           \* the raw_data of _read_clipboard_html_fragment
  html_bytes,
  fragment_bytes,
  f_by,            \* the assignment that set fragment_bytes
  f_result,        \* the returned fragment and html_text
  \* SpecCss
  css_pc,          \* "input", "maps", "resolve", "resolved", "done"
  css_decl,        \* how the style block and the declaration were written
  css_html,        \* the html_text given to _extract_html_style_maps
  css_style,       \* the style_text given to _style_implies_bold
  css_vars,        \* the variable table of _extract_html_style_maps
  css_value,       \* the value argument of the running _resolve_css_value call
  css_depth,       \* its depth argument
  css_bold,        \* what _style_implies_bold returned
  \* SpecHtml: ClipboardHtmlRunParser
  h_pc,            \* "feed", "done"
  h_input,         \* the tags and text the HTMLParser base class hands over
  h_pos,           \* how many of them were handled
  hp_runs,         \* self.runs
  _bold_depth,
  _skip_depth,
  _tag_stack,
  _li_depth,
  _class_bold_map, \* the class names that imply bold
  _css_vars,       \* the variable table given to the parser
  \* SpecRtf: ClipboardRtfRunParser
  rtf_pc,          \* "parse", "done"
  rtf_items,       \* the pieces the input was written from
  rtf_text,
  rtf_i,           \* the index i of parse's loop (0-based as in the source)
  rp_runs,         \* self.runs
  _bold,
  _bold_stack,
  _uc_skip,
  _pending_skip

nvars == <<n_pc, n_runs, n_once, n_twice>>
rvars == <<r_pc, r_count, r_best, r_scored, r_raised, r_rtf_raised>>
cvars == <<plain_text, html_capture, rtf_capture, capture>>
envvars == <<clip, other_holds, held>>
appvars == <<auto_capture_enabled, _last_clipboard_signature, doc, appended_since_change,
             tick_scheduled>>
opvars == <<operation, attempts, acquired, released, exit_path, raw_data, format_ids>>
avars == <<envvars, appvars, opvars, pc, caller, contended, raised>>
dvars == <<d_pc, d_raw, d_looks_le, d_result>>
fvars == <<f_pc, f_header, f_raw, html_bytes, fragment_bytes, f_by, f_result>>
cssvars == <<css_pc, css_decl, css_html, css_style, css_vars, css_value, css_depth, css_bold>>
hvars == <<h_pc, h_input, h_pos, hp_runs, _bold_depth, _skip_depth, _tag_stack, _li_depth,
          _class_bold_map, _css_vars>>
rtfvars == <<rtf_pc, rtf_items, rtf_text, rtf_i, rp_runs, _bold, _bold_stack, _uc_skip, _pending_skip>>
pvars == <<dvars, fvars, cssvars, hvars, rtfvars>>
vars == <<nvars, rvars, cvars, avars, pvars>>

\* the variables of a specification that is not running
NormalizeIdle ==
  /\ n_pc = "off"
  /\ n_runs = <<>>
  /\ n_once = <<>>
  /\ n_twice = <<>>

ReconcileIdle ==
  /\ r_pc = "off"
  /\ r_count = 0
  /\ r_best = InitialBest
  /\ r_scored = {}
  /\ r_raised = 0
  /\ r_rtf_raised = FALSE

CaptureLocalsInit ==
  /\ plain_text = <<>>
  /\ html_capture = None
  /\ rtf_capture = None
  /\ capture = None

AppIdle ==
  /\ clip = [plain |-> <<>>, html |-> <<>>, rtf |-> <<>>]
  /\ other_holds = FALSE
  /\ held = 0
  /\ auto_capture_enabled = FALSE
  /\ _last_clipboard_signature = NoSignature
  /\ doc = <<>>
  /\ appended_since_change = 0
  /\ tick_scheduled = FALSE
  /\ pc = "off"
  /\ caller = "none"
  /\ operation = "none"
  /\ attempts = 0
  /\ acquired = 0
  /\ released = 0
  /\ exit_path = "none"
  /\ raw_data = <<>>
  /\ format_ids = {}
  /\ contended = FALSE
  /\ raised = FALSE

DecodeIdle ==
  /\ d_pc = "off"
  /\ d_raw = <<>>
  /\ d_looks_le = FALSE
  /\ d_result = [codec |-> "none", text |-> <<>>]

FragmentIdle ==
  /\ f_pc = "off"
  /\ f_header = <<>>
  /\ f_raw = <<>>
  /\ html_bytes = <<>>
  /\ fragment_bytes = <<>>
  /\ f_by = "none"
  /\ f_result = None

CssIdle ==
  /\ css_pc = "off"
  /\ css_decl = <<>>
  /\ css_html = <<>>
  /\ css_style = <<>>
  /\ css_vars = <<>>
  /\ css_value = <<>>
  /\ css_depth = 0
  /\ css_bold = FALSE

\* ClipboardHtmlRunParser.__init__
HtmlParserInit ==
  /\ hp_runs = <<>>
  /\ _bold_depth = 0
  /\ _skip_depth = 0
  /\ _tag_stack = <<>>
  /\ _li_depth = 0

HtmlIdle ==
  /\ h_pc = "off"
  /\ h_input = <<>>
  /\ h_pos = 0
  /\ HtmlParserInit
  /\ _class_bold_map = {}
  /\ _css_vars = <<>>

\* ClipboardRtfRunParser.__init__ and the reset at the head of parse
RtfParserInit ==
  /\ rp_runs = <<>>
  /\ _bold = FALSE
  /\ _bold_stack = <<>>
  /\ _uc_skip = 1
  /\ _pending_skip = 0

RtfIdle ==
  /\ rtf_pc = "off"
  /\ rtf_items = <<>>
  /\ rtf_text = <<>>
  /\ rtf_i = 0
  /\ RtfParserInit

RECURSIVE TextsUpTo(_, _)
TextsUpTo(chars, n) ==
  IF n = 0 THEN {<<>>}
  ELSE LET shorter == TextsUpTo(chars, n - 1)
       IN  shorter \cup {Append(t, c) : t \in shorter, c \in chars}

RECURSIVE SeqsUpTo(_, _)
SeqsUpTo(S, n) ==
  IF n = 0 THEN {<<>>}
  ELSE LET shorter == SeqsUpTo(S, n - 1)
       IN  shorter \cup {Append(q, x) : q \in shorter, x \in S}

\* ---------------------------------------------------------------------
\* SpecNormalize
\* ---------------------------------------------------------------------
NormChars == {"a", " ", "\n", "-"}

NormRunInputs == TextsUpTo(NormChars, MaxRunLen) \X BOOLEAN

InitNormalize ==
  /\ n_pc = "input"
  /\ n_runs \in SeqsUpTo(NormRunInputs, MaxRuns)
  /\ n_once = <<>>
  /\ n_twice = <<>>
  /\ ReconcileIdle
  /\ CaptureLocalsInit
  /\ AppIdle
  /\ DecodeIdle /\ FragmentIdle /\ CssIdle /\ HtmlIdle /\ RtfIdle

NormalizeOnce ==
  /\ n_pc = "input"
  /\ n_once' = _normalize_captured_runs(n_runs)
  /\ n_pc' = "once"
  /\ UNCHANGED <<pvars, n_runs, n_twice, rvars, cvars, avars>>

NormalizeTwice ==
  /\ n_pc = "once"
  /\ n_twice' = _normalize_captured_runs(n_once)
  /\ n_pc' = "twice"
  /\ UNCHANGED <<pvars, n_runs, n_once, rvars, cvars, avars>>

NextNormalize == NormalizeOnce \/ NormalizeTwice

SpecNormalize == InitNormalize /\ [][NextNormalize]_vars

\* no run with empty text, no two adjacent runs with the same bold value
RunsWellFormed(runs) ==
  /\ \A i \in 1..Len(runs) : runs[i][1] # <<>>
  /\ \A i \in 1..(Len(runs) - 1) : runs[i][2] # runs[i + 1][2]

\* C9: normalizing an already-normalized run sequence changes nothing:
\* _normalize_captured_runs(_normalize_captured_runs(R)) = _normalize_captured_runs(R).
C9_NormalizeIdempotent == n_pc = "twice" => n_twice = n_once

\* C10: the output of _normalize_captured_runs has no run with empty text and
\* no two adjacent runs with the same bold value.
C10_NormalizedRunsWellFormed == n_pc \in {"once", "twice"} => RunsWellFormed(n_once)

\* C11: when the result of _normalize_captured_runs is not empty, its first
\* run does not begin with whitespace and its last run does not end with
\* whitespace, also when the original first or last run was emptied by the
\* trimming and dropped.
C11_NormalizedEndsTrimmed ==
  (n_pc \in {"once", "twice"} /\ n_once # <<>>) =>
    /\ ~IsSpace(Head(n_once[1][1]))
    /\ LET last == n_once[Len(n_once)][1] IN ~IsSpace(last[Len(last)])

\* ---------------------------------------------------------------------
\* SpecReconcile
\* ---------------------------------------------------------------------
ReconChars == {"a", "b"}
ReconTexts == TextsUpTo(ReconChars, MaxTextLen)

\* what the parser can leave for one fragment candidate: an exception, no
\* run, or one run
ParseOutcomes ==
  {Raised, Parsed(<<>>)} \cup {Parsed(<<<<t, b>>>>) : t \in ReconTexts \ {<<>>}, b \in BOOLEAN}

\* the runs parser.parse can return for the legacy representation
RtfRunInputs == {<<>>, <<<<<<"a">>, TRUE>>>>, <<<<<<"a">>, FALSE>>>>, <<<<<<"b">>, TRUE>>, <<<<"a">>, FALSE>>>>}

\* what _clipboard_available_format_names can return
FormatNameInputs == {<<>>, <<"CF_UNICODETEXT">>, <<"CF_UNICODETEXT", "HTML Format">>}

InitReconcile ==
  /\ r_pc = "candidates"
  /\ plain_text \in {_read_clipboard_text(t) : t \in ReconTexts}
  /\ r_count = 0
  /\ r_best = InitialBest
  /\ r_scored = {}
  /\ r_raised = 0
  /\ r_rtf_raised = FALSE
  /\ html_capture = None
  /\ rtf_capture = None
  /\ capture = None
  /\ NormalizeIdle
  /\ AppIdle
  /\ DecodeIdle /\ FragmentIdle /\ CssIdle /\ HtmlIdle /\ RtfIdle

\* one fragment candidate is parsed, normalized and scored
R_ScoreCandidate ==
  /\ r_pc = "candidates"
  /\ r_count < MaxCands
  /\ \E outcome \in ParseOutcomes :
       LET canonical_plain_text == _canonical_capture_text(plain_text)
           runs == _normalize_captured_runs(outcome.runs)
       IN  /\ r_best' = ScoreCandidate(r_best, outcome, canonical_plain_text)
           /\ r_scored' = IF outcome.raised \/ runs = <<>> THEN r_scored
                          ELSE r_scored \cup {CandidateScore(runs, canonical_plain_text)}
           /\ r_raised' = IF outcome.raised THEN r_raised + 1 ELSE r_raised
  /\ r_count' = r_count + 1
  /\ UNCHANGED <<pvars, r_pc, plain_text, r_rtf_raised, html_capture, rtf_capture, capture,
                 nvars, avars>>

\* the loop ends (or there was no markup payload): acceptance of the winner
R_AcceptHtml ==
  /\ r_pc = "candidates"
  /\ html_capture' = AcceptHtmlCapture(r_best, _canonical_capture_text(plain_text))
  /\ r_pc' = "rtf"
  /\ UNCHANGED <<pvars, plain_text, r_count, r_best, r_scored, r_raised, r_rtf_raised,
                 rtf_capture, capture, nvars, avars>>

R_ReadRtf ==
  /\ r_pc = "rtf"
  /\ \E outcome \in {Raised} \cup {Parsed(runs) : runs \in RtfRunInputs} :
       /\ rtf_capture' = RtfCapture(_read_clipboard_rtf_runs(outcome))
       /\ r_rtf_raised' = outcome.raised
  /\ r_pc' = "select"
  /\ UNCHANGED <<pvars, plain_text, r_count, r_best, r_scored, r_raised, html_capture, capture,
                 nvars, avars>>

R_Select ==
  /\ r_pc = "select"
  /\ LET rich == SelectRichCapture(html_capture, rtf_capture)
     IN  IF ~NeedsTextFallback(rich, plain_text) THEN capture' = rich
         ELSE \E names \in FormatNameInputs : capture' = TextCapture(plain_text, names)
  /\ r_pc' = "done"
  /\ UNCHANGED <<pvars, plain_text, r_count, r_best, r_scored, r_raised, r_rtf_raised,
                 html_capture, rtf_capture, nvars, avars>>

NextReconcile == R_ScoreCandidate \/ R_AcceptHtml \/ R_ReadRtf \/ R_Select

SpecReconcile == InitReconcile /\ [][NextReconcile]_vars

\* the lexicographic order of score tuples, as the claims state it: the first
\* component in which the tuples differ decides (the second is a ratio)
ComponentGreater(s, t, k) == IF k = 2 THEN s[2][1] * t[2][2] > t[2][1] * s[2][2] ELSE s[k] > t[k]
ComponentEqual(s, t, k) == IF k = 2 THEN s[2][1] * t[2][2] = t[2][1] * s[2][2] ELSE s[k] = t[k]
LexGreater(s, t) ==
  \E k \in 1..4 : /\ \A j \in 1..(k - 1) : ComponentEqual(s, t, j)
                  /\ ComponentGreater(s, t, k)

\* score of the stored winner, computed again from its runs
WinnerScore == CandidateScore(r_best.best_runs, _canonical_capture_text(plain_text))

\* C1: the capture returned follows the priority order (a) accepted markup
\* capture with a bold run, (b) legacy capture with a bold run, (c) accepted
\* markup capture, (d) legacy capture, (e) one non-bold run over the plain text
\* with source text and a diagnostic detail; with nothing at all, absence.
C1_SelectionPriority ==
  r_pc = "done" =>
    LET html_bold == html_capture # None /\ AnyBold(html_capture.runs)
        rtf_bold  == rtf_capture # None /\ AnyBold(rtf_capture.runs)
    IN  /\ html_bold => capture = html_capture
        /\ (~html_bold /\ rtf_bold) => capture = rtf_capture
        /\ (~html_bold /\ ~rtf_bold /\ html_capture # None) => capture = html_capture
        /\ (~rtf_bold /\ html_capture = None /\ rtf_capture # None) => capture = rtf_capture
        /\ (html_capture = None /\ rtf_capture = None /\ plain_text # <<>>) =>
             /\ capture.source = "text"
             /\ capture.runs = <<<<plain_text, FALSE>>>>
             /\ capture.text = plain_text
             /\ "detail" \in DOMAIN capture
        /\ (html_capture = None /\ rtf_capture = None /\ plain_text = <<>>) =>
             capture = None

\* an accepted markup capture with a bold run was returned although a legacy
\* capture with a bold run existed
C1_Witness ==
  /\ r_pc = "done"
  /\ html_capture # None /\ AnyBold(html_capture.runs)
  /\ rtf_capture # None /\ AnyBold(rtf_capture.runs)
  /\ capture = html_capture

\* C2: when the candidate loop has ended and the winner was accepted or
\* not (r_pc = "rtf"), a markup capture exists only if there is a winner and the canonical
\* plain text is empty or the winner's similarity is at least 0.28; the
\* capture then holds the winner's runs, and a winner below 0.28 means no
\* markup capture, whatever the other candidates' similarities.
C2_ThresholdOnWinnerOnly ==
  r_pc = "rtf" =>
    LET canonical_plain_text == _canonical_capture_text(plain_text)
        winner_similarity == CandidateSimilarity(r_best.best_runs, canonical_plain_text)
    IN  /\ html_capture # None =>
             /\ r_best.best_runs # <<>>
             /\ html_capture.runs = r_best.best_runs
             /\ \/ canonical_plain_text = <<>>
                \/ ~RatioLess(winner_similarity, SimilarityThreshold)
        /\ (/\ r_best.best_runs # <<>>
            /\ canonical_plain_text # <<>>
            /\ RatioLess(winner_similarity, SimilarityThreshold)) => html_capture = None

\* the winner is below 0.28, a candidate that lost to it is not, and no
\* markup capture was produced
C2_Witness ==
  /\ r_pc = "rtf"
  /\ html_capture = None
  /\ r_best.best_runs # <<>>
  /\ RatioLess(r_best.best_similarity, SimilarityThreshold)
  /\ \E c \in r_scored : /\ ~RatioLess(c[2], SimilarityThreshold)
                         /\ LexGreater(r_best.best_score, c)

\* C3: during and at the end of the candidate loop, the candidate kept as
\* best is one of the candidates that reached scoring, and no such candidate
\* has a strictly greater score tuple.
C3_BestIsMaximal ==
  r_pc \in {"candidates", "rtf"} =>
    /\ r_scored = {} <=> r_best.best_runs = <<>>
    /\ r_scored # {} =>
         /\ WinnerScore \in r_scored
         /\ r_best.best_score = WinnerScore
         /\ \A c \in r_scored : ~LexGreater(c, WinnerScore)

\* every candidate of the attempt was scored and the winner beat another
\* candidate by a component of the tuple after the bold flag
C3_Witness ==
  /\ r_count = MaxCands
  /\ \E c \in r_scored : /\ c[1] = r_best.best_score[1]
                         /\ LexGreater(r_best.best_score, c)

\* ---------------------------------------------------------------------
\* Spec: poll tick, toggle and clipboard access
\* ---------------------------------------------------------------------
\* The markup payload is given by what its fragment candidates parse to, the
\* legacy payload by the runs its parse leaves; <<>> is a format not offered.
ClipPlainInputs == {<<>>, <<"a">>}
ClipHtmlInputs == {<<>>, <<Parsed(<<<<<<"a">>, TRUE>>>>)>>}
ClipRtfInputs == {<<>>, <<<<<<"a">>, FALSE>>>>}
ClipContents == [plain : ClipPlainInputs, html : ClipHtmlInputs, rtf : ClipRtfInputs]
EmptyClip == [plain |-> <<>>, html |-> <<>>, rtf |-> <<>>]

\* the name under which the payload of an operation is on the clipboard
ClipboardFormatName(op) == IF op = "html" THEN "HTML Format" ELSE "Rich Text Format"

\* the names EnumClipboardFormats lists for a clipboard content
FormatNamesOf(c) ==
  (IF c.plain # <<>> THEN <<"CF_UNICODETEXT">> ELSE <<>>)
  \o (IF c.html # <<>> THEN <<ClipboardFormatName("html")>> ELSE <<>>)
  \o (IF c.rtf # <<>> THEN <<ClipboardFormatName("rtf")>> ELSE <<>>)

\* what the running operation reads when its body succeeds
PayloadOf(op, c) ==
  IF op = "html" THEN c.html ELSE IF op = "rtf" THEN c.rtf ELSE FormatNamesOf(c)

\* lines 2511-2526: a format is selected when the payload is on the clipboard
\* under a name that was registered, or under one that contains the keyword
FormatSelected(op, c, ids) ==
  /\ PayloadOf(op, c) # <<>>
  /\ \/ ClipboardFormatName(op) \in ids
     \/ ClipboardFormatName(op) \in (IF op = "html" THEN HtmlLikeNames ELSE RtfLikeNames)

\* the ways out of the try body (lines 2510-2546 and 2477-2483)
ReadExits(op, c, ids) ==
  IF op = "names" THEN {"ok", "exception"}
  ELSE IF ~FormatSelected(op, c, ids) THEN {"not_found"}
  ELSE {"null_handle", "bad_size", "lock_failed", "ok", "exception"}

Init ==
  /\ clip \in ClipContents
  /\ other_holds = FALSE
  /\ held = 0
  /\ auto_capture_enabled = FALSE
  /\ _last_clipboard_signature = NoSignature
  /\ doc = <<>>
  /\ appended_since_change = 0
  /\ tick_scheduled = TRUE
  /\ pc = "idle"
  /\ caller = "none"
  /\ operation = "none"
  /\ attempts = 0
  /\ acquired = 0
  /\ released = 0
  /\ exit_path = "none"
  /\ raw_data = <<>>
  /\ format_ids = {}
  /\ contended = FALSE
  /\ raised = FALSE
  /\ CaptureLocalsInit
  /\ NormalizeIdle
  /\ ReconcileIdle
  /\ DecodeIdle /\ FragmentIdle /\ CssIdle /\ HtmlIdle /\ RtfIdle

OperationReset ==
  /\ attempts' = 0
  /\ acquired' = 0
  /\ released' = 0
  /\ exit_path' = "none"
  /\ raw_data' = <<>>
  /\ format_ids' = {}

\* another application replaces the clipboard content, between two attempts
EnvSetClipboard ==
  /\ pc = "idle"
  /\ ~other_holds
  /\ clip' \in ClipContents \ {clip}
  /\ appended_since_change' = 0
  /\ UNCHANGED <<pvars, other_holds, held, auto_capture_enabled, _last_clipboard_signature, doc,
                 tick_scheduled, opvars, pc, caller, contended, raised, cvars, nvars, rvars>>

\* another application opens the clipboard, which this program does not hold
EnvOpen ==
  /\ ~other_holds
  /\ held = 0
  /\ other_holds' = TRUE
  /\ UNCHANGED <<pvars, clip, held, appvars, opvars, pc, caller, contended, raised,
                 cvars, nvars, rvars>>

EnvClose ==
  /\ other_holds
  /\ other_holds' = FALSE
  /\ UNCHANGED <<pvars, clip, held, appvars, opvars, pc, caller, contended, raised,
                 cvars, nvars, rvars>>

\* _clipboard_watch_tick with auto-capture off: only reschedules itself
TickDisabled ==
  /\ pc = "idle"
  /\ tick_scheduled
  /\ ~auto_capture_enabled
  /\ tick_scheduled' = TRUE
  /\ UNCHANGED <<pvars, envvars, auto_capture_enabled, _last_clipboard_signature, doc,
                 appended_since_change, opvars,
                 pc, caller, contended, raised, cvars, nvars, rvars>>

\* entry of _read_clipboard_capture
BeginCapture(who) ==
  /\ pc' = "read_text"
  /\ caller' = who
  /\ operation' = "none"
  /\ OperationReset
  /\ contended' = FALSE
  /\ raised' = FALSE
  /\ plain_text' = <<>>
  /\ html_capture' = None
  /\ rtf_capture' = None
  /\ capture' = None

\* _clipboard_watch_tick with auto-capture on: starts a capture attempt
TickBegin ==
  /\ pc = "idle"
  /\ tick_scheduled
  /\ auto_capture_enabled
  /\ Len(doc) < MaxDoc
  /\ tick_scheduled' = FALSE
  /\ BeginCapture("tick")
  /\ UNCHANGED <<pvars, envvars, auto_capture_enabled, _last_clipboard_signature, doc,
                 appended_since_change, nvars, rvars>>

\* toggle_auto_capture switching on: reads the current capture
ToggleOn ==
  /\ pc = "idle"
  /\ ~auto_capture_enabled
  /\ auto_capture_enabled' = TRUE
  /\ BeginCapture("toggle")
  /\ appended_since_change' = 0
  /\ UNCHANGED <<pvars, envvars, _last_clipboard_signature, doc, tick_scheduled, nvars, rvars>>

\* toggle_auto_capture switching off
ToggleOff ==
  /\ pc = "idle"
  /\ auto_capture_enabled
  /\ auto_capture_enabled' = FALSE
  /\ UNCHANGED <<pvars, envvars, _last_clipboard_signature, doc, appended_since_change,
                 tick_scheduled, opvars,
                 pc, caller, contended, raised, cvars, nvars, rvars>>

\* _read_clipboard_text: Tk returns the text or raises TclError
ReadText ==
  /\ pc = "read_text"
  /\ \E tcl_ok \in BOOLEAN :
       plain_text' = IF tcl_ok THEN _read_clipboard_text(clip.plain) ELSE <<>>
  /\ operation' = "html"
  /\ pc' = "fb_enter"
  /\ UNCHANGED <<pvars, envvars, appvars, attempts, acquired, released, exit_path, raw_data, format_ids,
                 caller, contended, raised, html_capture, rtf_capture, capture, nvars, rvars>>

\* _read_clipboard_format_bytes up to the open (lines 2490-2505): the names
\* are registered or RegisterClipboardFormatW returns 0 for them
FormatBytesEnter ==
  /\ pc = "fb_enter"
  /\ \E registered \in BOOLEAN :
       /\ format_ids' = IF registered THEN {ClipboardFormatName(operation)} ELSE {}
       /\ IF ~registered /\ ~HasKeyword(operation)
          THEN pc' = "return" /\ exit_path' = "no_format_ids"
          ELSE pc' = "open" /\ exit_path' = "none"
  /\ UNCHANGED <<pvars, envvars, appvars, operation, attempts, acquired, released, raw_data,
                 caller, contended, raised, cvars, nvars, rvars>>

\* _open_clipboard_with_retry: OpenClipboard succeeds
OpenSucceed ==
  /\ pc = "open"
  /\ RetryBudgetLeft(attempts)
  /\ ~other_holds
  /\ attempts' = attempts + 1
  /\ held' = held + 1
  /\ acquired' = acquired + 1
  /\ pc' = "read"
  /\ UNCHANGED <<pvars, clip, other_holds, appvars, operation, released, exit_path, raw_data, format_ids,
                 caller, contended, raised, cvars, nvars, rvars>>

\* _open_clipboard_with_retry: OpenClipboard fails, the loop sleeps
OpenFail ==
  /\ pc = "open"
  /\ RetryBudgetLeft(attempts)
  /\ other_holds
  /\ attempts' = attempts + 1
  /\ UNCHANGED <<pvars, envvars, appvars, operation, acquired, released, exit_path, raw_data, format_ids,
                 pc, caller, contended, raised, cvars, nvars, rvars>>

\* _open_clipboard_with_retry returns False: the operation returns None / []
OpenGiveUp ==
  /\ pc = "open"
  /\ ~RetryBudgetLeft(attempts)
  /\ exit_path' = "open_failed"
  /\ contended' = TRUE
  /\ pc' = "return"
  /\ UNCHANGED <<pvars, envvars, appvars, operation, attempts, acquired, released, raw_data, format_ids,
                 caller, raised, cvars, nvars, rvars>>

\* the try body, with the clipboard open
ReadBody ==
  /\ pc = "read"
  /\ \E e \in ReadExits(operation, clip, format_ids) :
       /\ exit_path' = e
       /\ raw_data' = IF e = "ok" THEN PayloadOf(operation, clip) ELSE <<>>
       /\ format_ids' = format_ids
       /\ pc' = AfterRead(e)
  /\ UNCHANGED <<pvars, envvars, appvars, operation, attempts, acquired, released,
                 caller, contended, raised, cvars, nvars, rvars>>

\* the finally clause
CloseClipboard ==
  /\ pc = "close"
  /\ held' = _close_clipboard_quietly(held)
  /\ released' = released + 1
  /\ pc' = "return"
  /\ UNCHANGED <<pvars, clip, other_holds, appvars, operation, attempts, acquired, exit_path,
                 raw_data, format_ids, caller, contended, raised, cvars, nvars, rvars>>

\* an exception leaves _read_clipboard_capture
Propagate ==
  /\ raised' = TRUE
  /\ pc' = "finish"
  /\ operation' = "none"
  /\ OperationReset

\* _read_clipboard_html_fragment returned: candidate loop and acceptance
ReturnHtml ==
  /\ pc = "return"
  /\ operation = "html"
  /\ IF exit_path = "exception"
     THEN Propagate /\ UNCHANGED html_capture
     ELSE /\ html_capture' =
               IF raw_data = <<>> THEN None
               ELSE LET canonical_plain_text == _canonical_capture_text(plain_text)
                    IN  AcceptHtmlCapture(
                          BestCandidate(InitialBest, raw_data, canonical_plain_text),
                          canonical_plain_text)
          /\ operation' = "rtf"
          /\ pc' = "fb_enter"
          /\ OperationReset
          /\ UNCHANGED raised
  /\ UNCHANGED <<pvars, envvars, appvars, caller, contended, plain_text, rtf_capture, capture,
                 nvars, rvars>>

\* _read_clipboard_rtf_runs returned
ReturnRtf ==
  /\ pc = "return"
  /\ operation = "rtf"
  /\ IF exit_path = "exception"
     THEN Propagate /\ UNCHANGED rtf_capture
     ELSE /\ rtf_capture' = RtfCapture(_normalize_captured_runs(raw_data))
          /\ operation' = "none"
          /\ pc' = "select"
          /\ OperationReset
          /\ UNCHANGED raised
  /\ UNCHANGED <<pvars, envvars, appvars, caller, contended, plain_text, html_capture, capture,
                 nvars, rvars>>

\* lines 2896-2909: a rich capture, absence, or the format names are listed
SelectCapture ==
  /\ pc = "select"
  /\ LET rich == SelectRichCapture(html_capture, rtf_capture)
     IN  IF ~NeedsTextFallback(rich, plain_text)
         THEN capture' = rich /\ pc' = "finish" /\ operation' = "none"
         ELSE capture' = capture /\ pc' = "open" /\ operation' = "names"
  /\ UNCHANGED <<pvars, envvars, appvars, attempts, acquired, released, exit_path, raw_data, format_ids,
                 caller, contended, raised, plain_text, html_capture, rtf_capture,
                 nvars, rvars>>

\* _clipboard_available_format_names returned: the plain-text capture
ReturnNames ==
  /\ pc = "return"
  /\ operation = "names"
  /\ IF exit_path = "exception"
     THEN Propagate /\ UNCHANGED capture
     ELSE /\ capture' = TextCapture(plain_text, raw_data)
          /\ operation' = "none"
          /\ pc' = "finish"
          /\ OperationReset
          /\ UNCHANGED raised
  /\ UNCHANGED <<pvars, envvars, appvars, caller, contended, plain_text, html_capture, rtf_capture,
                 nvars, rvars>>

\* the rest of _clipboard_watch_tick; an exception skips the root.after call
FinishTick ==
  /\ pc = "finish"
  /\ caller = "tick"
  /\ IF raised
     THEN UNCHANGED <<_last_clipboard_signature, doc, appended_since_change, tick_scheduled>>
     ELSE /\ IF capture # None /\ capture.signature # _last_clipboard_signature
             THEN /\ _last_clipboard_signature' = capture.signature
                  /\ doc' = Append(doc, capture.runs)
                  /\ appended_since_change' = appended_since_change + 1
             ELSE UNCHANGED <<_last_clipboard_signature, doc, appended_since_change>>
          /\ tick_scheduled' = TRUE
  /\ pc' = "idle"
  /\ caller' = "none"
  /\ UNCHANGED <<pvars, envvars, auto_capture_enabled, opvars, contended, raised, cvars, nvars, rvars>>

\* the rest of toggle_auto_capture
FinishToggle ==
  /\ pc = "finish"
  /\ caller = "toggle"
  /\ _last_clipboard_signature' =
       IF raised THEN _last_clipboard_signature
       ELSE IF capture # None THEN capture.signature ELSE NoSignature
  /\ pc' = "idle"
  /\ caller' = "none"
  /\ UNCHANGED <<pvars, envvars, auto_capture_enabled, doc, appended_since_change,
                 tick_scheduled, opvars, contended,
                 raised, cvars, nvars, rvars>>

Next ==
  \/ EnvSetClipboard \/ EnvOpen \/ EnvClose
  \/ TickDisabled \/ TickBegin \/ ToggleOn \/ ToggleOff
  \/ ReadText \/ FormatBytesEnter
  \/ OpenSucceed \/ OpenFail \/ OpenGiveUp
  \/ ReadBody \/ CloseClipboard
  \/ ReturnHtml \/ ReturnRtf \/ SelectCapture \/ ReturnNames
  \/ FinishTick \/ FinishToggle

Spec == Init /\ [][Next]_vars

\* C4: with a clipboard that offers no markup, no legacy format and no plain
\* text, the capture attempt returns None without raising, and the poll tick
\* that made it appends nothing and leaves the last signature unchanged.
C4_EmptyClipboardIsAbsent ==
  [][(pc = "finish" /\ clip = EmptyClip) =>
       /\ capture = None
       /\ ~raised
       /\ caller = "tick" =>
            /\ doc' = doc
            /\ _last_clipboard_signature' = _last_clipboard_signature]_vars

\* a poll tick finds the clipboard empty after an earlier capture was appended
C4_Witness ==
  /\ pc = "finish"
  /\ caller = "tick"
  /\ clip = EmptyClip
  /\ capture = None
  /\ doc # <<>>
  /\ _last_clipboard_signature # NoSignature

\* C5: when an operation of a poll's capture attempt exhausted the retry
\* budget, the attempt is abandoned: no capture is produced, nothing is
\* appended and the last signature is unchanged.
C5_ContentionAbandonsPoll ==
  [][(pc = "finish" /\ caller = "tick" /\ contended) =>
       /\ capture = None
       /\ doc' = doc
       /\ _last_clipboard_signature' = _last_clipboard_signature]_vars

\* C6: when a clipboard operation returns, every successful acquisition was
\* followed by exactly one release, on every exit path, and no release was
\* issued when the acquisition failed or was not attempted; while the body
\* runs the clipboard is acquired and not yet released.
C6_ScopedRelease ==
  /\ pc = "return" =>
       /\ released = acquired
       /\ held = 0
       /\ exit_path \in {"open_failed", "no_format_ids"} => acquired = 0 /\ released = 0
       /\ exit_path \in {"not_found", "null_handle", "bad_size", "lock_failed", "ok",
                         "exception"} => acquired = 1 /\ released = 1
  /\ pc \in {"read", "close"} => acquired = 1 /\ released = 0
  /\ pc \in {"fb_enter", "open"} => acquired = 0 /\ released = 0

\* an operation whose body raised has returned, the clipboard released once
C6_Witness ==
  /\ pc = "return"
  /\ exit_path = "exception"
  /\ acquired = 1
  /\ released = 1
  /\ held = 0

\* C7: this program never has more than one open/close pair in flight, and
\* never tries to open the clipboard while it holds it.
C7_OnePairInFlight ==
  /\ held \in {0, 1}
  /\ pc \in {"idle", "read_text", "fb_enter", "open", "select", "finish"} => held = 0
  /\ held = 1 => pc \in {"read", "close"} /\ ~other_holds

\* the third operation of one attempt (the format names, during a toggle)
\* holds the clipboard, after the markup and legacy reads
C7_Witness ==
  /\ pc = "read"
  /\ operation = "names"
  /\ caller = "toggle"
  /\ held = 1
  /\ clip.html # <<>>
  /\ clip.rtf # <<>>

\* C8: _open_clipboard_with_retry makes at most CLIPBOARD_OPEN_RETRIES open
\* attempts, makes none after the first success, and every pass of its loop
\* uses up one attempt or leaves the loop; when every attempt failed the
\* operation returns nothing, without raising and without holding the clipboard.
C8_BoundedOpenRetry ==
  /\ [](attempts <= CLIPBOARD_OPEN_RETRIES)
  /\ [](acquired > 0 => pc # "open")
  /\ []((pc = "return" /\ exit_path = "open_failed") =>
          /\ attempts = CLIPBOARD_OPEN_RETRIES
          /\ acquired = 0
          /\ raw_data = <<>>
          /\ ~raised
          /\ held = 0)
  /\ [][(pc = "open" /\ pc' = "open") =>
          \/ attempts' = attempts + 1
          \/ attempts' = attempts /\ other_holds' # other_holds]_vars
  /\ [][(pc = "open" /\ pc' = "read") => attempts' = attempts + 1 /\ ~other_holds]_vars

\* every attempt failed and the operation returned
C8_Witness ==
  /\ pc = "return"
  /\ exit_path = "open_failed"
  /\ attempts = CLIPBOARD_OPEN_RETRIES

\* ---------------------------------------------------------------------
\* SpecDecode: _decode_clipboard_bytes on byte buffers
\* ---------------------------------------------------------------------
\* A buffer is an optional byte-order mark, up to MaxUnits two-byte units and
\* an optional odd byte.  The units: "A" in either byte order, two ASCII
\* bytes, two zero bytes, a lone high surrogate, a byte cp1252 does not
\* have, and a two-byte UTF-8 sequence.
DecodeUnits == {<<65, 0>>, <<0, 65>>, <<65, 65>>, <<0, 0>>, <<0, 216>>, <<129, 0>>, <<195, 169>>}
DecodeMarks == {<<>>, <<255, 254>>, <<254, 255>>}
DecodeTails == {<<>>, <<0>>, <<65>>}

RECURSIVE Flatten(_)
Flatten(seqs) == IF seqs = <<>> THEN <<>> ELSE Head(seqs) \o Flatten(Tail(seqs))

DecodeInputs ==
  {mark \o Flatten(units) \o tail :
     mark \in DecodeMarks, units \in SeqsUpTo(DecodeUnits, MaxUnits), tail \in DecodeTails}

InitDecode ==
  /\ d_pc = "input"
  /\ d_raw \in DecodeInputs
  /\ d_looks_le = FALSE
  /\ d_result = [codec |-> "none", text |-> <<>>]
  /\ NormalizeIdle /\ ReconcileIdle /\ CaptureLocalsInit /\ AppIdle
  /\ FragmentIdle /\ CssIdle /\ HtmlIdle /\ RtfIdle

Decode ==
  /\ d_pc = "input"
  /\ d_looks_le' = looks_like_utf16le(d_raw)
  /\ d_result' = DecodeResult(d_raw)
  /\ d_pc' = "done"
  /\ UNCHANGED <<d_raw, nvars, rvars, cvars, avars, fvars, cssvars, hvars, rtfvars>>

SpecDecode == InitDecode /\ [][Decode]_vars

\* C14: _decode_clipboard_bytes returns a string for every byte buffer: one
\* of the codecs of its chain decodes the bytes, so the last-resort decoding
\* after the loop is never needed, and the string has no NUL character.
C14_DecodeTotalNoNul ==
  d_pc = "done" =>
    /\ d_result.codec \in {"none", "utf-8", "cp1252", "latin1", "utf-16", "utf-16le", "utf-16be"}
    /\ \A k \in 1..Len(d_result.text) : d_result.text[k] # NUL

\* an odd-length buffer with a byte-order mark that only the last codec of
\* its chain decodes, zero bytes included
C14_Witness ==
  /\ d_pc = "done"
  /\ Len(d_raw) % 2 = 1
  /\ starts_with_bom(d_raw)
  /\ \E k \in 1..Len(d_raw) : d_raw[k] = 0
  /\ d_result.codec = "latin1"
  /\ d_result.text # <<>>

\* the zero fractions of the claim, over the sampled bytes
OddZeroAbove60(blob) ==
  LET z == ZeroCounts(blob)
  IN  z.odd_len > 0 /\ z.odd_zero * 100 > 60 * z.odd_len
EvenZeroBelow25(blob) ==
  LET z == ZeroCounts(blob)
  IN  z.even_len > 0 /\ z.even_zero * 100 < 25 * z.even_len

\* C15 as stated: a buffer of any length with more than 60% zero bytes at
\* the odd indices and fewer than 25% at the even indices is classified
\* little-endian wide-character, and its decoded string has no NUL.
C15_WideAtAnyLength ==
  (d_pc = "done" /\ OddZeroAbove60(d_raw) /\ EvenZeroBelow25(d_raw)) =>
    /\ d_looks_le
    /\ \A k \in 1..Len(d_result.text) : d_result.text[k] # NUL

\* C15 amended: the same for buffers of at least MIN_SAMPLE_BYTES bytes.
C15_WideFromEightBytes ==
  (d_pc = "done" /\ Len(d_raw) >= MIN_SAMPLE_BYTES
     /\ OddZeroAbove60(d_raw) /\ EvenZeroBelow25(d_raw)) =>
    /\ d_looks_le
    /\ \A k \in 1..Len(d_result.text) : d_result.text[k] # NUL

\* eight bytes, three of the four odd-indexed ones zero, decoded as utf-16le
C15_Witness ==
  /\ d_pc = "done"
  /\ Len(d_raw) = MIN_SAMPLE_BYTES
  /\ ZeroCounts(d_raw).odd_zero = 3
  /\ ZeroCounts(d_raw).even_zero = 0
  /\ d_looks_le
  /\ d_result.codec = "utf-16le"
  /\ d_result.text # <<>>

\* ---------------------------------------------------------------------
\* SpecFragment: _read_clipboard_html_fragment on a payload that was read
\* ---------------------------------------------------------------------
HeaderNames == <<"StartHTML", "EndHTML", "StartFragment", "EndFragment">>

\* a header line: the name, the offset in three digits, a line feed
HeaderLine(name, offset) ==
  Literal[name] \o <<48 + (offset \div 100), 48 + ((offset \div 10) % 10), 48 + (offset % 10), 10>>

\* the header of the payload: a line for every offset that is not -1
HeaderBytes(header) ==
  Flatten([k \in 1..4 |->
             IF header[HeaderNames[k]] < 0 THEN <<>>
             ELSE HeaderLine(HeaderNames[k], header[HeaderNames[k]])])

\* markup with and without the boundary comments, and no markup
FragmentBodies ==
  {Bytes(<<"<", "!", "-", "-", "S", "t", "a", "r", "t", "F", "r", "a", "g", "m", "e", "n", "t", "-", "-", ">", "a", "<", "!", "-", "-", "E", "n", "d", "F", "r", "a", "g", "m", "e", "n", "t", "-", "-", ">">>),
   Bytes(<<"<", "b", ">", "a", "<", "/", "b", ">">>),
   <<>>}

\* zero bytes after the payload
FragmentPadding == {<<>>, <<0, 0>>}

\* offsets at the start, at the ends of the markup and past the end of a payload
\* whose header is h bytes long and which is n bytes long
OffsetChoices(h, n) == {0, h, n - 1, n} \cup {n + k : k \in 1..MaxBeyond}

InitFragment ==
  /\ f_pc = "input"
  /\ \E present \in SUBSET {1, 2, 3, 4}, body \in FragmentBodies, padding \in FragmentPadding :
       LET h == Len(HeaderBytes([name \in {HeaderNames[k] : k \in 1..4} |->
                                   IF \E k \in present : HeaderNames[k] = name
                                   THEN 0 ELSE -1]))
           n == h + Len(body)
       IN  \E offsets \in [present -> OffsetChoices(h, n)] :
             /\ f_header = [name \in {HeaderNames[k] : k \in 1..4} |->
                              LET k == CHOOSE j \in 1..4 : HeaderNames[j] = name
                              IN  IF k \in present THEN offsets[k] ELSE -1]
             /\ f_raw = HeaderBytes(f_header) \o body \o padding
  /\ html_bytes = <<>>
  /\ fragment_bytes = <<>>
  /\ f_by = "none"
  /\ f_result = None
  /\ NormalizeIdle /\ ReconcileIdle /\ CaptureLocalsInit /\ AppIdle
  /\ DecodeIdle /\ CssIdle /\ HtmlIdle /\ RtfIdle

\* lines 2654-2655: nothing was read
ReturnNoFragment ==
  /\ f_pc = "input"
  /\ f_raw = <<>>
  /\ f_pc' = "done"
  /\ f_result' = None
  /\ UNCHANGED <<f_header, f_raw, html_bytes, fragment_bytes, f_by,
                 nvars, rvars, cvars, avars, dvars, cssvars, hvars, rtfvars>>

\* lines 2657-2686
ExtractFragmentBytes ==
  /\ f_pc = "input"
  /\ f_raw # <<>>
  /\ LET r == FragmentBytes(f_raw)
     IN  /\ html_bytes' = r.html_bytes
         /\ fragment_bytes' = r.fragment_bytes
         /\ f_by' = r.by
  /\ f_pc' = "bytes"
  /\ UNCHANGED <<f_header, f_raw, f_result,
                 nvars, rvars, cvars, avars, dvars, cssvars, hvars, rtfvars>>

\* lines 2688-2710
ReturnFragment ==
  /\ f_pc = "bytes"
  /\ LET Result(decoded_fragment, decoded_html, from_text, style_maps) ==
           [fragment |-> IF decoded_fragment # <<>> THEN decoded_fragment
                         ELSE IF from_text # <<>> THEN from_text
                         ELSE decoded_html,
            html_text |-> decoded_html,
            class_bold_map |-> style_maps.class_bold_map,
            css_vars |-> style_maps.css_vars]
         FromHtml(decoded_fragment, decoded_html) ==
           Result(decoded_fragment, decoded_html,
                  _extract_html_fragment_from_text(decoded_html),
                  _extract_html_style_maps(decoded_html))
         FromFragment(decoded_fragment) ==
           FromHtml(decoded_fragment,
                    IF decoded_fragment # <<>> THEN _decode_clipboard_bytes(html_bytes)
                    ELSE _decode_clipboard_bytes(f_raw))
     IN  f_result' = FromFragment(_decode_clipboard_bytes(fragment_bytes))
  /\ f_pc' = "done"
  /\ UNCHANGED <<f_header, f_raw, html_bytes, fragment_bytes, f_by,
                 nvars, rvars, cvars, avars, dvars, cssvars, hvars, rtfvars>>

NextFragment == ReturnNoFragment \/ ExtractFragmentBytes \/ ReturnFragment

SpecFragment == InitFragment /\ [][NextFragment]_vars

\* the bytes between the boundary comments of a markup, where it has both
\* in order
MarkedOff(markup) ==
  LET first == Find(markup, Literal.start_marker, 1)
      last == Find(markup, Literal.end_marker, 1)
  IN  IF first > 0 /\ last > first
      THEN [found |-> TRUE, bytes |-> SubSeq(markup, first + Len(Literal.start_marker), last - 1)]
      ELSE [found |-> FALSE, bytes |-> <<>>]

\* C12: with StartFragment and EndFragment offsets that are not
\* 0 <= start < end <= payload length, the byte path takes the fragment from
\* between the boundary comments if the markup has them and takes the whole
\* markup only if it has none.
C12_InvalidOffsetsUseMarkers ==
  (/\ f_pc \in {"bytes", "done"}
   /\ f_header.StartFragment >= 0 /\ f_header.EndFragment >= 0
   /\ ~(f_header.StartFragment < f_header.EndFragment /\ f_header.EndFragment <= Len(f_raw)))
  => IF MarkedOff(html_bytes).found THEN fragment_bytes = MarkedOff(html_bytes).bytes
     ELSE fragment_bytes = html_bytes

\* a pair of offsets is present and 0 <= start < end <= length
PairValid(start, end, length) == start >= 0 /\ end >= 0 /\ start < end /\ end <= length

\* C13 as stated: the fragment is payload[StartFragment:EndFragment] exactly
\* when all four offsets are present and both pairs are valid; when one is
\* absent or invalid the fragment is not taken from the header offsets.
C13_SliceNeedsAllFour ==
  f_pc \in {"bytes", "done"} =>
    LET n == Len(TrimPaddingNulls(f_raw))
        all_four == /\ PairValid(f_header.StartHTML, f_header.EndHTML, n)
                    /\ PairValid(f_header.StartFragment, f_header.EndFragment, n)
    IN  IF all_four
        THEN fragment_bytes = Slice(f_raw, f_header.StartFragment, f_header.EndFragment)
        ELSE f_by # "offsets"

\* C13 amended: the fragment is payload[StartFragment:EndFragment] exactly
\* when StartFragment and EndFragment are present and valid against the
\* payload without its zero padding, whatever StartHTML and EndHTML are;
\* otherwise it is the whole markup or the bytes between its boundary
\* comments.
C13_SliceNeedsFragmentPair ==
  f_pc \in {"bytes", "done"} =>
    LET n == Len(TrimPaddingNulls(f_raw))
    IN  IF PairValid(f_header.StartFragment, f_header.EndFragment, n)
        THEN /\ f_by = "offsets"
             /\ fragment_bytes = Slice(f_raw, f_header.StartFragment, f_header.EndFragment)
        ELSE /\ f_by # "offsets"
             /\ fragment_bytes \in {html_bytes, MarkedOff(html_bytes).bytes}

\* no StartHTML line, a valid fragment pair that ends at the end of the
\* payload, and the fragment cut out by it
C13_Witness ==
  /\ f_pc = "bytes"
  /\ f_header.StartHTML = -1
  /\ f_header.StartFragment > 0
  /\ f_header.EndFragment = Len(TrimPaddingNulls(f_raw))
  /\ f_by = "offsets"
  /\ fragment_bytes # html_bytes
  /\ fragment_bytes # <<>>

\* ---------------------------------------------------------------------
\* SpecCss: the variable table of a payload and the resolution of a
\* font-weight declaration against it, one _resolve_css_value call a step
\* ---------------------------------------------------------------------

\* the name of the k-th variable of a chain: --w, --w2, --w3, ...
VarName(k, upper) ==
  <<"-", "-", IF upper THEN "W" ELSE "w">> \o (IF k = 1 THEN <<>> ELSE <<Chr(48 + k)>>)

VarRef(k, upper) == <<"v", "a", "r", "(">> \o VarName(k, upper) \o <<")">>

\* what the last variable of a chain is declared as
Terminals ==
  {<<"7", "0", "0">>, <<"5", "0", "0">>, <<"1", "0", "0", "0">>, <<"4", "9", "9">>, <<"4", "0", "0">>, <<"b", "o", "l", "d">>, <<"m", "e", "d", "i", "u", "m">>, <<"n", "o", "r", "m", "a", "l">>, <<"B", "o", "l", "d">>}

\* the value of the k-th variable of the chain d
VarValue(d, k) ==
  IF k < d.refs THEN VarRef(k + 1, d.upper_ref)
  ELSE IF d.end = "cycle" THEN VarRef(1, d.upper_ref)
  ELSE d.terminal \o (IF d.important THEN <<" ", "!", "i", "m", "p", "o", "r", "t", "a", "n", "t">> ELSE <<>>)

\* --name: value; for the variables from to to of the chain d
RECURSIVE VarDeclarations(_, _, _)
VarDeclarations(d, from, to) ==
  IF from > to THEN <<>>
  ELSE VarName(from, d.upper_decl) \o <<":", " ">> \o VarValue(d, from) \o <<";">>
         \o VarDeclarations(d, from + 1, to)

StyleBlock(declarations) ==
  <<"<", "s", "t", "y", "l", "e", ">", ".", "c", "{">> \o declarations \o <<"}", "<", "/", "s", "t", "y", "l", "e", ">">>

\* the payload of the chain d: its variables in one style block or in two;
\* the last variable of a dangling chain is not declared
ChainHtml(d) ==
  LET declared == IF d.end = "dangling" THEN d.refs - 1 ELSE d.refs
  IN  IF d.blocks = 1 \/ declared < 2
      THEN StyleBlock(VarDeclarations(d, 1, declared)) \o <<"<", "p", ">", "a", "<", "/", "p", ">">>
      ELSE StyleBlock(VarDeclarations(d, 2, declared)) \o <<"<", "p", ">", "a", "<", "/", "p", ">">>
             \o StyleBlock(VarDeclarations(d, 1, 1))

ChainStyle(d) == <<"f", "o", "n", "t", "-", "w", "e", "i", "g", "h", "t", ":", " ">> \o VarRef(1, d.upper_ref)

Chains ==
  [refs : 1..MaxRefs, end : {"value", "cycle", "dangling"}, terminal : Terminals,
   important : BOOLEAN, upper_decl : BOOLEAN, upper_ref : BOOLEAN, blocks : {1, 2}]

InitCss ==
  /\ css_pc = "input"
  /\ css_decl \in Chains
  /\ css_decl.end # "value" =>
       css_decl.terminal = <<"7", "0", "0">> /\ ~css_decl.important /\ css_decl.blocks = 1
  /\ css_html = ChainHtml(css_decl)
  /\ css_style = ChainStyle(css_decl)
  /\ css_vars = <<>>
  /\ css_value = <<>>
  /\ css_depth = 0
  /\ css_bold = FALSE
  /\ NormalizeIdle /\ ReconcileIdle /\ CaptureLocalsInit /\ AppIdle
  /\ DecodeIdle /\ FragmentIdle /\ HtmlIdle /\ RtfIdle

\* lines 2712-2742, the variable table
ExtractStyleMaps ==
  /\ css_pc = "input"
  /\ \E style_maps \in {_extract_html_style_maps(css_html)} : css_vars' = style_maps.css_vars
  /\ css_pc' = "maps"
  /\ UNCHANGED <<css_decl, css_html, css_style, css_value, css_depth, css_bold,
                 nvars, rvars, cvars, avars, dvars, fvars, hvars, rtfvars>>

\* lines 202-206: the call of depth 0 on the value of the declaration
ResolveEnter ==
  /\ css_pc = "maps"
  /\ PropertyValue(Lowered(css_style), CssLiteral.font_weight).found
  /\ css_value' = PropertyValue(Lowered(css_style), CssLiteral.font_weight).text
  /\ css_depth' = 0
  /\ css_pc' = "resolve"
  /\ UNCHANGED <<css_decl, css_html, css_style, css_vars, css_bold,
                 nvars, rvars, cvars, avars, dvars, fvars, hvars, rtfvars>>

\* lines 171-180: a reference, and the call of depth + 1 on what it names
ResolveCall ==
  /\ css_pc = "resolve"
  /\ ~ResolveLevel(css_value, css_vars, css_depth).returns
  /\ css_value' = ResolveLevel(css_value, css_vars, css_depth).text
  /\ css_depth' = css_depth + 1
  /\ UNCHANGED <<css_pc, css_decl, css_html, css_style, css_vars, css_bold,
                 nvars, rvars, cvars, avars, dvars, fvars, hvars, rtfvars>>

\* lines 163-168 and 182: the call that returns a text
ResolveReturn ==
  /\ css_pc = "resolve"
  /\ ResolveLevel(css_value, css_vars, css_depth).returns
  /\ css_value' = ResolveLevel(css_value, css_vars, css_depth).text
  /\ css_pc' = "resolved"
  /\ UNCHANGED <<css_decl, css_html, css_style, css_vars, css_depth, css_bold,
                 nvars, rvars, cvars, avars, dvars, fvars, hvars, rtfvars>>

\* lines 184-243
StyleImpliesBold ==
  /\ css_pc = "resolved"
  /\ \E implied \in {_style_implies_bold(css_style, css_vars)} : css_bold' = implied
  /\ css_pc' = "done"
  /\ UNCHANGED <<css_decl, css_html, css_style, css_vars, css_value, css_depth,
                 nvars, rvars, cvars, avars, dvars, fvars, hvars, rtfvars>>

NextCss == ExtractStyleMaps \/ ResolveEnter \/ ResolveCall \/ ResolveReturn \/ StyleImpliesBold

SpecCss == InitCss /\ [][NextCss]_vars

\* what a step of a running _resolve_css_value call does to the position and
\* the depth: ResolveReturn or ResolveCall, whichever the value calls for
ResolveStep ==
  /\ css_pc = "resolve"
  /\ \/ css_pc' = "resolved" /\ css_depth' = css_depth
     \/ css_pc' = "resolve" /\ css_depth' = css_depth + 1

\* a call of _resolve_css_value that has started runs on: it returns or it
\* makes the next call
SpecCssFair == SpecCss /\ WF_<<css_pc, css_depth>>(ResolveStep)

\* C16: _resolve_css_value terminates on every value and table, cyclic
\* tables included: no call is deeper than one past the depth bound, the
\* call at that depth returns the text it was given, unresolved, and every
\* resolution that has started comes to its end.
C16_ResolveTerminates ==
  /\ [](css_depth <= RESOLVE_DEPTH + 1)
  /\ [][(css_pc = "resolve" /\ css_depth = RESOLVE_DEPTH + 1) =>
          (css_pc' = "resolved" /\ css_value' = Strip(css_value))]_vars
  /\ (css_pc = "resolve") ~> (css_pc = "resolved")

\* a cyclic table stopped at the depth bound with a reference still in hand
C16_Witness ==
  /\ css_pc = "resolved"
  /\ css_decl.end = "cycle"
  /\ css_decl.refs \in {1, 2}
  /\ css_depth = RESOLVE_DEPTH + 1
  /\ MatchAt(css_value, CssLiteral.var, 1)

\* the weights that imply bold: numbers from 500 and the bold keywords
BoldWeights ==
  {<<"7", "0", "0">>, <<"5", "0", "0">>, <<"1", "0", "0", "0">>, <<"b", "o", "l", "d">>, <<"m", "e", "d", "i", "u", "m">>}

\* C17: a font-weight declaration that is a var() reference implies bold
\* whenever the table built from the style blocks of the payload, keyed
\* without regard to case, leads through at most 6 references to a number
\* of 500 or more or to a bold keyword.
C17_VarWeightImpliesBold ==
  (/\ css_pc = "done"
   /\ css_decl.end = "value"
   /\ css_decl.refs <= 6
   /\ css_decl.terminal \in BoldWeights)
  => css_bold

\* six references, names declared in upper case, ending in 700
C17_Witness ==
  /\ css_pc = "done"
  /\ css_decl.end = "value"
  /\ css_decl.refs = 6
  /\ css_decl.upper_decl /\ ~css_decl.upper_ref
  /\ css_decl.blocks = 2
  /\ css_decl.terminal = <<"7", "0", "0">>
  /\ css_bold

\* ---------------------------------------------------------------------
\* SpecHtml: ClipboardHtmlRunParser on the tags and texts of a markup
\* ---------------------------------------------------------------------
BLOCK_TAGS ==
  {<<"p">>,
   <<"d", "i", "v">>,
   <<"s", "e", "c", "t", "i", "o", "n">>,
   <<"a", "r", "t", "i", "c", "l", "e">>,
   <<"h", "e", "a", "d", "e", "r">>,
   <<"f", "o", "o", "t", "e", "r">>,
   <<"a", "s", "i", "d", "e">>,
   <<"b", "l", "o", "c", "k", "q", "u", "o", "t", "e">>,
   <<"p", "r", "e">>,
   <<"u", "l">>,
   <<"o", "l">>,
   <<"t", "a", "b", "l", "e">>,
   <<"t", "r">>,
   <<"h", "1">>,
   <<"h", "2">>,
   <<"h", "3">>,
   <<"h", "4">>,
   <<"h", "5">>,
   <<"h", "6">>}

\* _attrs_imply_bold: attrs is the list of <<name, value>> pairs of a tag, a
\* value None being <<>>
_attrs_imply_bold(attrs, class_bold_map, table) ==
  LET \* attr_map.get(name, ""): the last pair of that name
      Get(name) ==
        LET hits == {k \in 1..Len(attrs) : Lowered(attrs[k][1]) = name}
        IN  IF hits = {} THEN <<>>
            ELSE attrs[CHOOSE k \in hits : \A j \in hits : j <= k][2]
      face_value == Lowered(Get(<<"f", "a", "c", "e">>))
      class_value == Strip(Get(<<"c", "l", "a", "s", "s">>))
      \* re.split(r"\s+", class_value.strip()): the words of the value
      class_names ==
        {SubSeq(class_value, k, k + SpanNot(class_value, k, CharClass.space) - 1) :
           k \in {j \in 1..Len(class_value) :
                    /\ class_value[j] \notin CharClass.space
                    /\ j = 1 \/ class_value[j - 1] \in CharClass.space}}
  IN  \/ _style_implies_bold(Get(<<"s", "t", "y", "l", "e">>), table)
      \/ /\ face_value # <<>>
         /\ \E word \in {CssLiteral.bold, CssLiteral.black, CssLiteral.semibold,
                         CssLiteral.demibold} : Find(face_value, word, 1) > 0
      \/ \E class_name \in class_names : class_name \in class_bold_map

\* _append of both parsers: the run list after the text is added
_append_unmerged(runs, text, is_bold) ==
  IF text = <<>> THEN runs ELSE Append(runs, <<text, is_bold>>)
_append(runs, text, is_bold) ==
  IF text = <<>> THEN runs
  ELSE IF runs # <<>> /\ runs[Len(runs)][2] = is_bold
  THEN [runs EXCEPT ![Len(runs)] = <<runs[Len(runs)][1] \o text, is_bold>>]
  ELSE Append(runs, <<text, is_bold>>)

_append_newline_always(runs) == _append(runs, <<"\n">>, FALSE)
_append_newline(runs) ==
  IF runs = <<>> THEN runs
  ELSE IF LET last == runs[Len(runs)][1] IN last[Len(last)] = "\n" THEN runs
  ELSE _append(runs, <<"\n">>, FALSE)

\* the fields of the parser that its handlers change
ParserState ==
  [runs |-> hp_runs, _bold_depth |-> _bold_depth, _skip_depth |-> _skip_depth,
   _tag_stack |-> _tag_stack, _li_depth |-> _li_depth]

\* lines 300-305: whether the tag is pushed as bold-implying
PushesBold(lowered, attrs, class_bold_map, table) ==
  \/ lowered \in {<<"b">>, <<"s", "t", "r", "o", "n", "g">>, <<"t", "h">>}
  \/ Len(lowered) = 2 /\ lowered[1] = "h" /\ lowered[2] \in CharClass.digit
  \/ _attrs_imply_bold(attrs, class_bold_map, table)

handle_starttag(parser, tag, attrs, class_bold_map, table) ==
  LET lowered == Lowered(tag)
      pushes_bold == PushesBold(lowered, attrs, class_bold_map, table)
      item == lowered = <<"l", "i">>
  IN  IF lowered \in {<<"s", "c", "r", "i", "p", "t">>, <<"s", "t", "y", "l", "e">>}
      THEN [parser EXCEPT !._skip_depth = @ + 1]
      ELSE IF parser._skip_depth > 0 THEN parser
      ELSE IF lowered = <<"b", "r">>
      THEN [parser EXCEPT !.runs = _append(@, <<"\n">>, FALSE)]
      ELSE [parser EXCEPT
              !.runs = IF item THEN _append(_append_newline(@), <<"-", " ">>, FALSE) ELSE @,
              !._li_depth = IF item THEN @ + 1 ELSE @,
              !._bold_depth = IF pushes_bold THEN @ + 1 ELSE @,
              !._tag_stack = Append(@, <<lowered, pushes_bold>>)]

\* lines 326-328: the bold depth after an entry was taken off the stack
BoldDepthReset(depth, pushes_bold) == IF pushes_bold THEN 0 ELSE depth
BoldDepthAfterClose(depth, pushes_bold) ==
  IF pushes_bold /\ depth > 0 THEN depth - 1 ELSE depth

\* lines 322-325: the stack entry the loop stops at, counted from 1; 0 where
\* no entry has the name
OutermostEntry(stack, lowered) ==
  LET same == {k \in 1..Len(stack) : stack[k][1] = lowered}
  IN  IF same = {} THEN 0 ELSE CHOOSE k \in same : \A j \in same : k <= j
MatchingEntry(stack, lowered) ==
  LET same == {k \in 1..Len(stack) : stack[k][1] = lowered}
  IN  IF same = {} THEN 0 ELSE CHOOSE k \in same : \A j \in same : j <= k

\* lines 332-333: the list-item depth after the close of a list item
LiDepthCleared(depth) == 0
LiDepthAfterClose(depth) == IF depth > 0 THEN depth - 1 ELSE depth

handle_endtag(parser, tag) ==
  LET lowered == Lowered(tag)
      stack == parser._tag_stack
      i == MatchingEntry(stack, lowered)
      popped == IF i = 0 THEN parser
                ELSE [parser EXCEPT
                        !._tag_stack = SubSeq(stack, 1, i - 1) \o SubSeq(stack, i + 1, Len(stack)),
                        !._bold_depth = BoldDepthAfterClose(@, stack[i][2])]
  IN  IF lowered \in {<<"s", "c", "r", "i", "p", "t">>, <<"s", "t", "y", "l", "e">>}
      THEN [parser EXCEPT !._skip_depth = IF @ > 0 THEN @ - 1 ELSE @]
      ELSE IF parser._skip_depth > 0 THEN parser
      ELSE IF lowered = <<"l", "i">>
      THEN [popped EXCEPT !._li_depth = LiDepthAfterClose(@),
                          !.runs = _append_newline(@)]
      ELSE IF lowered \in BLOCK_TAGS /\ popped._li_depth = 0
      THEN [popped EXCEPT !.runs = _append_newline(@)]
      ELSE popped

handle_data_unskipped(parser, data) ==
  [parser EXCEPT !.runs = _append(@, data, parser._bold_depth > 0)]
handle_data(parser, data) ==
  IF parser._skip_depth > 0 THEN parser
  ELSE [parser EXCEPT !.runs = _append(@, data, parser._bold_depth > 0)]

StartTag(tag, attrs) == [kind |-> "start", tag |-> tag, attrs |-> attrs, data |-> <<>>]
EndTag(tag) == [kind |-> "end", tag |-> tag, attrs |-> <<>>, data |-> <<>>]
Data(data) == [kind |-> "data", tag |-> <<>>, attrs |-> <<>>, data |-> data]

\* the tags and texts that the inputs are made of
HtmlTokens ==
  {StartTag(<<"b">>, <<>>), StartTag(<<"s", "p", "a", "n">>, <<>>),
   StartTag(<<"s", "p", "a", "n">>, <<<<<<"s", "t", "y", "l", "e">>, <<"f", "o", "n", "t", "-", "w", "e", "i", "g", "h", "t", ":", " ", "7", "0", "0">>>>>>),
   StartTag(<<"p">>, <<>>), StartTag(<<"l", "i">>, <<>>), StartTag(<<"s", "c", "r", "i", "p", "t">>, <<>>),
   StartTag(<<"b", "r">>, <<>>),
   EndTag(<<"b">>), EndTag(<<"s", "p", "a", "n">>), EndTag(<<"p">>), EndTag(<<"l", "i">>),
   EndTag(<<"s", "c", "r", "i", "p", "t">>),
   Data(<<"a">>)}

\* text and the close of a block-level tag, outside and inside a list item
BlockCloseInputs ==
  UNION {{<<Data(<<"a">>), EndTag(tag)>>,
          <<StartTag(<<"l", "i">>, <<>>), Data(<<"a">>), EndTag(tag)>>} : tag \in BLOCK_TAGS}

\* markup that is not balanced: <b><span><b>a</span>b</b>c</b>d</b> and
\* <li><b><li>a</b></li>b</li></li>
UnbalancedExamples ==
  {<<StartTag(<<"b">>, <<>>), StartTag(<<"s", "p", "a", "n">>, <<>>), StartTag(<<"b">>, <<>>),
     Data(<<"a">>), EndTag(<<"s", "p", "a", "n">>), Data(<<"b">>), EndTag(<<"b">>),
     Data(<<"c">>), EndTag(<<"b">>), Data(<<"d">>), EndTag(<<"b">>)>>,
   <<StartTag(<<"l", "i">>, <<>>), StartTag(<<"b">>, <<>>), StartTag(<<"l", "i">>, <<>>),
     Data(<<"a">>), EndTag(<<"b">>), EndTag(<<"l", "i">>), Data(<<"b">>),
     EndTag(<<"l", "i">>), EndTag(<<"l", "i">>)>>}

\* <script><style>a<b></b></style>b</script>c, as the handlers can be called
SkipExample ==
  <<StartTag(<<"s", "c", "r", "i", "p", "t">>, <<>>), StartTag(<<"s", "t", "y", "l", "e">>, <<>>),
    Data(<<"a">>), StartTag(<<"b">>, <<>>), EndTag(<<"b">>), EndTag(<<"s", "t", "y", "l", "e">>),
    Data(<<"b">>), EndTag(<<"s", "c", "r", "i", "p", "t">>), Data(<<"c">>)>>

\* <b>a<b>b</b>c</b>
NestedBoldExample ==
  <<StartTag(<<"b">>, <<>>), Data(<<"a">>), StartTag(<<"b">>, <<>>), Data(<<"b">>),
    EndTag(<<"b">>), Data(<<"c">>), EndTag(<<"b">>)>>

InitHtml ==
  /\ h_pc = "feed"
  /\ h_input \in SeqsUpTo(HtmlTokens, MaxTokens) \cup {NestedBoldExample}
                 \cup BlockCloseInputs \cup UnbalancedExamples \cup {SkipExample}
  /\ h_pos = 0
  /\ HtmlParserInit
  /\ _class_bold_map = {}
  /\ _css_vars = <<>>
  /\ NormalizeIdle /\ ReconcileIdle /\ CaptureLocalsInit /\ AppIdle
  /\ DecodeIdle /\ FragmentIdle /\ CssIdle /\ RtfIdle

\* the handler has run on the next tag or text
Handled(parser) ==
  /\ hp_runs' = parser.runs
  /\ _bold_depth' = parser._bold_depth
  /\ _skip_depth' = parser._skip_depth
  /\ _tag_stack' = parser._tag_stack
  /\ _li_depth' = parser._li_depth
  /\ h_pos' = h_pos + 1
  /\ UNCHANGED <<h_pc, h_input, _class_bold_map, _css_vars,
                 nvars, rvars, cvars, avars, dvars, fvars, cssvars, rtfvars>>

HandleStartTag ==
  /\ h_pc = "feed"
  /\ h_pos < Len(h_input)
  /\ h_input[h_pos + 1].kind = "start"
  /\ Handled(handle_starttag(ParserState, h_input[h_pos + 1].tag, h_input[h_pos + 1].attrs,
                             _class_bold_map, _css_vars))

HandleEndTag ==
  /\ h_pc = "feed"
  /\ h_pos < Len(h_input)
  /\ h_input[h_pos + 1].kind = "end"
  /\ Handled(handle_endtag(ParserState, h_input[h_pos + 1].tag))

HandleData ==
  /\ h_pc = "feed"
  /\ h_pos < Len(h_input)
  /\ h_input[h_pos + 1].kind = "data"
  /\ Handled(handle_data(ParserState, h_input[h_pos + 1].data))

\* lines 2846-2847: the markup is used up
FeedDone ==
  /\ h_pc = "feed"
  /\ h_pos = Len(h_input)
  /\ h_pc' = "done"
  /\ UNCHANGED <<h_input, h_pos, hp_runs, _bold_depth, _skip_depth, _tag_stack, _li_depth,
                 _class_bold_map, _css_vars,
                 nvars, rvars, cvars, avars, dvars, fvars, cssvars, rtfvars>>

NextHtml == HandleStartTag \/ HandleEndTag \/ HandleData \/ FeedDone

SpecHtml == InitHtml /\ [][NextHtml]_vars

\* how many entries of a tag stack are bold-implying
OpenBold(stack) == Cardinality({k \in 1..Len(stack) : stack[k][2]})

\* C18: with bold-implying elements nested, the close of an inner one leaves
\* bold on; text handed over while a bold-implying element is open is
\* emitted bold and joins a bold run before it; <b>a<b>b</b>c</b> gives the
\* single run ("abc", true).
C18_NestedBoldOneRun ==
  /\ []((h_pc = "done" /\ h_input = NestedBoldExample)
          => hp_runs = <<<<<<"a", "b", "c">>, TRUE>>>>)
  /\ [][(/\ h_pos' = h_pos + 1
         /\ h_input[h_pos'].kind = "end"
         /\ _skip_depth = 0
         /\ OpenBold(_tag_stack) >= 2)
        => _bold_depth' > 0]_vars
  /\ [][(/\ h_pos' = h_pos + 1
         /\ h_input[h_pos'].kind = "data"
         /\ _skip_depth = 0
         /\ OpenBold(_tag_stack) >= 1)
        => /\ hp_runs' # <<>>
           /\ hp_runs'[Len(hp_runs')][2]
           /\ (hp_runs # <<>> /\ hp_runs[Len(hp_runs)][2])
                => /\ Len(hp_runs') = Len(hp_runs)
                   /\ hp_runs'[Len(hp_runs')][1]
                        = hp_runs[Len(hp_runs)][1] \o h_input[h_pos'].data]_vars

\* the example after its inner </b> and the text c, the outer <b> still open
C18_Witness ==
  /\ h_input = NestedBoldExample
  /\ h_pos = 6
  /\ OpenBold(_tag_stack) = 1
  /\ _bold_depth = 1
  /\ hp_runs = <<<<<<"a", "b", "c">>, TRUE>>>>

\* ---------------------------------------------------------------------
\* SpecRtf: ClipboardRtfRunParser.parse, one iteration of its loop a step
\* ---------------------------------------------------------------------

\* the characters of the model of which str.isalpha is true
AlphaChars == CharClass.letter \cup {Chr(233)}

\* _read_control_word; index counts from 0 as in the source, number None is
\* has_number FALSE
ReadLettersOnly(text, index) ==
  LET after_word == index + Span(text, index + 1, CharClass.letter)
  IN  [word |-> SubSeq(text, index + 1, after_word), has_number |-> FALSE, number |-> 0,
       index |-> IF after_word < Len(text) /\ text[after_word + 1] = " "
                 THEN after_word + 1 ELSE after_word]

_read_control_word(text, index) ==
  LET letters == Span(text, index + 1, AlphaChars)
      after_word == index + letters
      signed == after_word < Len(text) /\ text[after_word + 1] \in {"-", "+"}
      sign == IF signed /\ text[after_word + 1] = "-" THEN -1 ELSE 1
      number_start == IF signed THEN after_word + 1 ELSE after_word
      digits == Span(text, number_start + 1, CharClass.digit)
      after_number == number_start + digits
      values == [k \in 1..Len(text) |->
                   IF text[k] \in CharClass.digit THEN OrdTable[text[k]] ELSE 0]
  IN  [word |-> SubSeq(text, index + 1, after_word),
       has_number |-> digits > 0,
       number |-> IF digits > 0 THEN sign * Number(values, number_start + 1, digits, 48) ELSE 0,
       index |-> IF after_number < Len(text) /\ text[after_number + 1] = " "
                 THEN after_number + 1 ELSE after_number]

\* line 457: the bold state after the control word b
BoldAlwaysSet(has_number, number) == TRUE
BoldAfterWord(has_number, number) == ~(has_number /\ number = 0)

\* bytes.fromhex(hex_value).decode("cp1252") of the two characters after
\* \': the text appended, <<>> where either call raises
HexEscape(hex_value) ==
  LET hex == <<"0", "1", "2", "3", "4", "5", "6", "7", "8", "9",
               "a", "b", "c", "d", "e", "f">>
      Value(c) == CHOOSE v \in 0..15 : Casefold(c) = hex[v + 1]
      IsHex(c) == \E v \in 0..15 : Casefold(c) = hex[v + 1]
      byte == 16 * Value(hex_value[1]) + Value(hex_value[2])
  IN  IF IsHex(hex_value[1]) /\ IsHex(hex_value[2]) /\ Cp1252(byte) >= 0
      THEN <<Chr(Cp1252(byte))>>
      ELSE <<>>

\* the fields of the parser and the index i of its loop
RtfState ==
  [i |-> rtf_i, runs |-> rp_runs, _bold |-> _bold, _bold_stack |-> _bold_stack,
   _uc_skip |-> _uc_skip, _pending_skip |-> _pending_skip]

\* lines 456-475: the control word that was read takes effect
ControlWord(st, cw) ==
  LET codepoint == IF cw.number >= 0 THEN cw.number ELSE cw.number + 65536
      at == [st EXCEPT !.i = cw.index]
  IN  IF cw.word = <<"b">>
      THEN [at EXCEPT !._bold = BoldAfterWord(cw.has_number, cw.number)]
      ELSE IF cw.word \in {<<"p", "a", "r">>, <<"l", "i", "n", "e">>}
      THEN [at EXCEPT !.runs = _append(@, <<"\n">>, FALSE)]
      ELSE IF cw.word = <<"t", "a", "b">>
      THEN [at EXCEPT !.runs = _append(@, <<"\t">>, st._bold)]
      ELSE IF cw.word \in {<<"e", "m", "d", "a", "s", "h">>, <<"e", "n", "d", "a", "s", "h">>}
      THEN [at EXCEPT !.runs = _append(@, <<"-">>, st._bold)]
      ELSE IF cw.word = <<"b", "u", "l", "l", "e", "t">>
      THEN [at EXCEPT !.runs = _append(@, <<"-", " ">>, FALSE)]
      ELSE IF cw.word = <<"u">> /\ cw.has_number
      THEN [at EXCEPT
              !.runs = IF codepoint \in 0..1114111
                       THEN _append(@, <<Chr(codepoint)>>, st._bold) ELSE @,
              !._pending_skip = IF st._uc_skip > 0 THEN st._uc_skip ELSE 0]
      ELSE IF cw.word = <<"u", "c">> /\ cw.has_number /\ cw.number >= 0
      THEN [at EXCEPT !._uc_skip = cw.number]
      ELSE at

\* lines 421-423: a backslash that ends the input
LoneBackslashStays(st, j) == st
LoneBackslash(st, j) == [st EXCEPT !.i = j]

\* lines 410-414: the close of a group
GroupCloseKeepsBold(st) ==
  IF st._bold_stack # <<>>
  THEN [st EXCEPT !._bold_stack = SubSeq(@, 1, Len(@) - 1), !.i = @ + 1]
  ELSE [st EXCEPT !.i = @ + 1]
GroupClose(st) ==
  IF st._bold_stack # <<>>
  THEN [st EXCEPT !._bold = st._bold_stack[Len(st._bold_stack)],
                  !._bold_stack = SubSeq(@, 1, Len(@) - 1),
                  !.i = @ + 1]
  ELSE [st EXCEPT !.i = @ + 1]

\* lines 398-475: one iteration of the loop of parse, on i < n
ParseIteration(st, text) ==
  LET n == Len(text)
      ch == text[st.i + 1]
      j == st.i + 1
      symbol == text[j + 1]
  IN  IF st._pending_skip > 0 /\ ch \notin {"\\", "{", "}"}
      THEN [st EXCEPT !._pending_skip = @ - 1, !.i = @ + 1]
      ELSE IF ch = "{"
      THEN [st EXCEPT !._bold_stack = Append(@, st._bold), !.i = @ + 1]
      ELSE IF ch = "}"
      THEN GroupClose(st)
      ELSE IF ch # "\\"
      THEN [st EXCEPT !.runs = _append(@, <<ch>>, st._bold), !.i = @ + 1]
      ELSE IF j >= n THEN LoneBackslash(st, j)
      ELSE IF symbol \in {"\\", "{", "}"}
      THEN [st EXCEPT !.runs = _append(@, <<symbol>>, st._bold), !.i = j + 1]
      ELSE IF symbol = "'"
      THEN IF j + 2 < n
           THEN [st EXCEPT !.runs = _append(@, HexEscape(SubSeq(text, j + 2, j + 3)), st._bold),
                           !.i = j + 3]
           ELSE [st EXCEPT !.i = j + 1]
      ELSE IF symbol \notin AlphaChars
      THEN [st EXCEPT
              !.runs = IF symbol = "~" THEN _append(@, <<" ">>, st._bold)
                       ELSE IF symbol \in {"_", "-"} THEN _append(@, <<"-">>, st._bold)
                       ELSE @,
              !.i = j + 1]
      ELSE ControlWord(st, _read_control_word(text, j))

\* the pieces inputs are written from: the source text of a piece, the text
\* it stands for, and whether it is a control word without its delimiter
RtfItems ==
  {[src |-> <<"x">>, out |-> <<"x">>, word |-> FALSE],
   [src |-> <<" ">>, out |-> <<" ">>, word |-> FALSE],
   [src |-> <<"{">>, out |-> <<>>, word |-> FALSE],
   [src |-> <<"}">>, out |-> <<>>, word |-> FALSE],
   [src |-> <<"\\", "b">>, out |-> <<>>, word |-> TRUE],
   [src |-> <<"\\", "b", " ">>, out |-> <<>>, word |-> FALSE],
   [src |-> <<"\\", "b", "0">>, out |-> <<>>, word |-> TRUE],
   [src |-> <<"\\", "b", "1">>, out |-> <<>>, word |-> TRUE],
   [src |-> <<"\\", "b", "1", " ">>, out |-> <<>>, word |-> FALSE],
   [src |-> <<"\\", "b", "0", " ">>, out |-> <<>>, word |-> FALSE],
   [src |-> <<"\\", "i">>, out |-> <<>>, word |-> TRUE],
   [src |-> <<"\\", "i", " ">>, out |-> <<>>, word |-> FALSE],
   [src |-> <<"\\", "f", "s", "2", "4">>, out |-> <<>>, word |-> TRUE],
   [src |-> <<"\\", "f", "s", "2", "4", " ">>, out |-> <<>>, word |-> FALSE],
   [src |-> <<"\\", "l", "i", "-", "7", "2", "0">>, out |-> <<>>, word |-> TRUE],
   [src |-> <<"\\", "l", "i", "-", "7", "2", "0", " ">>, out |-> <<>>, word |-> FALSE],
   [src |-> <<"\\", "p", "a", "r">>, out |-> <<"\n">>, word |-> TRUE],
   [src |-> <<"\\", "p", "a", "r", " ">>, out |-> <<"\n">>, word |-> FALSE],
   [src |-> <<"\\", "u", "8", "2", "2", "6", "?">>, out |-> <<BULLET>>, word |-> FALSE],
   [src |-> <<"\\", "u", "8", "2", "2", "6", " ", "?">>, out |-> <<BULLET>>, word |-> FALSE],
   [src |-> <<"\\", "u", "2", "3", "3">>, out |-> <<Chr(233)>>, word |-> TRUE],
   [src |-> <<"\\", "~">>, out |-> <<" ">>, word |-> FALSE],
   [src |-> <<"\\", "_">>, out |-> <<"-">>, word |-> FALSE],
   [src |-> <<"\\", "*">>, out |-> <<>>, word |-> FALSE],
   [src |-> <<"\\", "{">>, out |-> <<"{">>, word |-> FALSE],
   [src |-> <<"\\", "\\">>, out |-> <<"\\">>, word |-> FALSE],
   [src |-> <<"\\", "'", "e", "9">>, out |-> <<Chr(233)>>, word |-> FALSE]}

\* {\b hello\b0 world}
BoldExample ==
  <<[src |-> <<"{">>, out |-> <<>>, word |-> FALSE],
    [src |-> <<"\\", "b", " ">>, out |-> <<>>, word |-> FALSE],
    [src |-> <<"h">>, out |-> <<"h">>, word |-> FALSE],
    [src |-> <<"e">>, out |-> <<"e">>, word |-> FALSE],
    [src |-> <<"l">>, out |-> <<"l">>, word |-> FALSE],
    [src |-> <<"l">>, out |-> <<"l">>, word |-> FALSE],
    [src |-> <<"o">>, out |-> <<"o">>, word |-> FALSE],
    [src |-> <<"\\", "b", "0", " ">>, out |-> <<>>, word |-> FALSE],
    [src |-> <<"w">>, out |-> <<"w">>, word |-> FALSE],
    [src |-> <<"o">>, out |-> <<"o">>, word |-> FALSE],
    [src |-> <<"r">>, out |-> <<"r">>, word |-> FALSE],
    [src |-> <<"l">>, out |-> <<"l">>, word |-> FALSE],
    [src |-> <<"d">>, out |-> <<"d">>, word |-> FALSE],
    [src |-> <<"}">>, out |-> <<>>, word |-> FALSE]>>

\* pieces no well-formed input has: a backslash with nothing after it and
\* hexadecimal escapes cut short
RtfBroken ==
  {[src |-> <<"\\">>, out |-> <<>>, word |-> FALSE],
   [src |-> <<"\\", "'">>, out |-> <<>>, word |-> FALSE],
   [src |-> <<"\\", "'", "e">>, out |-> <<>>, word |-> FALSE]}

\* skip-count controls in front of an escape, and the skip count k in force
\* after each: none, \uc0, \uc1, \uc2 and \uc-3
EscapeHeads ==
  {[items |-> <<>>, k |-> 1],
   [items |-> <<[src |-> <<"\\", "u", "c", "0">>, out |-> <<>>, word |-> TRUE]>>, k |-> 0],
   [items |-> <<[src |-> <<"\\", "u", "c", "1">>, out |-> <<>>, word |-> TRUE]>>, k |-> 1],
   [items |-> <<[src |-> <<"\\", "u", "c", "2">>, out |-> <<>>, word |-> TRUE]>>, k |-> 2],
   [items |-> <<[src |-> <<"\\", "u", "c", "-", "3">>, out |-> <<>>, word |-> TRUE]>>, k |-> 1]}

\* Unicode escapes: \u233 and \u-4000, which stands for code point 61536
EscapeCodes ==
  {[src |-> <<"\\", "u", "2", "3", "3">>, out |-> <<Chr(233)>>, word |-> TRUE],
   [src |-> <<"\\", "u", "-", "4", "0", "0", "0">>, out |-> <<Chr(61536)>>, word |-> TRUE]}

\* one character of fallback representation: written as it is, or as a
\* hexadecimal escape
FallbackUnits ==
  {[src |-> <<"?">>, out |-> <<>>, word |-> FALSE],
   [src |-> <<"\\", "'", "e", "9">>, out |-> <<>>, word |-> FALSE]}

\* skip-count controls, an escape, k characters of fallback, and the text x
EscapeInputs ==
  UNION {{head.items \o <<code>> \o fallback
            \o <<[src |-> <<"x">>, out |-> <<"x">>, word |-> FALSE]>> :
            fallback \in [1..head.k -> FallbackUnits]} :
         head \in EscapeHeads, code \in EscapeCodes}

\* groups and bold toggles
GroupItems ==
  {[src |-> <<"{">>, out |-> <<>>, word |-> FALSE],
   [src |-> <<"}">>, out |-> <<>>, word |-> FALSE],
   [src |-> <<"\\", "b", " ">>, out |-> <<>>, word |-> FALSE],
   [src |-> <<"\\", "b", "0", " ">>, out |-> <<>>, word |-> FALSE]}

\* inputs that break off: {\u233\ and {x\'e and }}\b and {\uc2 \u233 x
BrokenExamples ==
  {<<[src |-> <<"{">>, out |-> <<>>, word |-> FALSE],
     [src |-> <<"\\", "u", "2", "3", "3">>, out |-> <<Chr(233)>>, word |-> TRUE],
     [src |-> <<"\\">>, out |-> <<>>, word |-> FALSE]>>,
   <<[src |-> <<"{">>, out |-> <<>>, word |-> FALSE],
     [src |-> <<"x">>, out |-> <<"x">>, word |-> FALSE],
     [src |-> <<"\\", "'", "e">>, out |-> <<>>, word |-> FALSE]>>,
   <<[src |-> <<"}">>, out |-> <<>>, word |-> FALSE],
     [src |-> <<"}">>, out |-> <<>>, word |-> FALSE],
     [src |-> <<"\\", "b">>, out |-> <<>>, word |-> TRUE]>>,
   <<[src |-> <<"{">>, out |-> <<>>, word |-> FALSE],
     [src |-> <<"\\", "u", "c", "2", " ">>, out |-> <<>>, word |-> FALSE],
     [src |-> <<"\\", "u", "2", "3", "3", " ">>, out |-> <<Chr(233)>>, word |-> FALSE],
     [src |-> <<"x">>, out |-> <<>>, word |-> FALSE]>>}

\* groups balanced, no broken piece, and a control word without its
\* delimiter followed by markup or by nothing
WellFormed(items) ==
  LET Opens(k) == Cardinality({j \in 1..k : items[j].src = <<"{">>})
      Closes(k) == Cardinality({j \in 1..k : items[j].src = <<"}">>})
  IN  /\ \A k \in 1..Len(items) : Closes(k) <= Opens(k)
      /\ Closes(Len(items)) = Opens(Len(items))
      /\ \A k \in 1..Len(items) : items[k] \notin RtfBroken
      /\ \A k \in 1..(Len(items) - 1) :
           items[k].word => Head(items[k + 1].src) \in {"\\", "{", "}"}

InitRtf ==
  /\ rtf_pc = "parse"
  /\ rtf_items \in SeqsUpTo(RtfItems \cup RtfBroken, MaxItems) \cup {BoldExample}
                   \cup EscapeInputs \cup SeqsUpTo(GroupItems, MaxGroup) \cup BrokenExamples
  /\ rtf_text = Flatten([k \in 1..Len(rtf_items) |-> rtf_items[k].src])
  /\ rtf_i = 0
  /\ RtfParserInit
  /\ NormalizeIdle /\ ReconcileIdle /\ CaptureLocalsInit /\ AppIdle
  /\ DecodeIdle /\ FragmentIdle /\ CssIdle /\ HtmlIdle

ParseStep ==
  /\ rtf_pc = "parse"
  /\ rtf_i < Len(rtf_text)
  /\ \E st \in {ParseIteration(RtfState, rtf_text)} :
       /\ rtf_i' = st.i
       /\ rp_runs' = st.runs
       /\ _bold' = st._bold
       /\ _bold_stack' = st._bold_stack
       /\ _uc_skip' = st._uc_skip
       /\ _pending_skip' = st._pending_skip
  /\ UNCHANGED <<rtf_pc, rtf_items, rtf_text,
                 nvars, rvars, cvars, avars, dvars, fvars, cssvars, hvars>>

\* line 477
ParseReturn ==
  /\ rtf_pc = "parse"
  /\ rtf_i >= Len(rtf_text)
  /\ rtf_pc' = "done"
  /\ UNCHANGED <<rtf_items, rtf_text, rtf_i, rp_runs, _bold, _bold_stack, _uc_skip,
                 _pending_skip,
                 nvars, rvars, cvars, avars, dvars, fvars, cssvars, hvars>>

NextRtf == ParseStep \/ ParseReturn

SpecRtf == InitRtf /\ [][NextRtf]_vars

\* the control word at the read index is b, with this parameter
AtBoldWord(has_number, number) ==
  /\ rtf_pc = "parse"
  /\ _pending_skip = 0
  /\ MatchAt(rtf_text, <<"\\", "b">>, rtf_i + 1)
  /\ rtf_i + 2 = Len(rtf_text) \/ rtf_text[rtf_i + 3] \notin AlphaChars
  /\ LET digits == Span(rtf_text, rtf_i + 3, CharClass.digit)
     IN  /\ has_number = (digits > 0)
         /\ digits > 0 =>
              number = IF \A k \in (rtf_i + 3)..(rtf_i + 2 + digits) : rtf_text[k] = "0"
                       THEN 0 ELSE 1

\* C19: the control word b clears bold with parameter 0 and sets it with
\* any other parameter or none; the space that ends a control word is
\* consumed and not emitted; text is emitted with the bold state of that
\* moment; {\b hello\b0 world} gives ("hello", true), ("world", false).
C19_BoldWordAndDelimiter ==
  /\ []((rtf_pc = "done" /\ rtf_items = BoldExample)
          => rp_runs = <<<<<<"h", "e", "l", "l", "o">>, TRUE>>, <<<<"w", "o", "r", "l", "d">>, FALSE>>>>)
  /\ [][(AtBoldWord(TRUE, 0) => ~_bold')
        /\ (AtBoldWord(TRUE, 1) \/ AtBoldWord(FALSE, 0) => _bold')]_vars
  /\ [][(/\ rtf_pc = "parse"
         /\ _pending_skip = 0
         /\ rtf_i + 1 < Len(rtf_text)
         /\ rtf_text[rtf_i + 1] = "\\"
         /\ rtf_text[rtf_i + 2] \in {"b", "i", "f", "l"})
        => LET word == Span(rtf_text, rtf_i + 2, CharClass.letter)
               sign == IF /\ rtf_i + 1 + word < Len(rtf_text)
                          /\ rtf_text[rtf_i + 2 + word] = "-"
                       THEN 1 ELSE 0
               digits == Span(rtf_text, rtf_i + 2 + word + sign, CharClass.digit)
               last == rtf_i + 1 + word + sign + digits
           IN  (last < Len(rtf_text) /\ rtf_text[last + 1] = " ")
                 => (rtf_i' = last + 1 /\ rp_runs' = rp_runs)]_vars
  /\ [][(/\ rtf_pc = "parse"
         /\ rtf_i < Len(rtf_text)
         /\ _pending_skip = 0
         /\ rtf_text[rtf_i + 1] \notin {"\\", "{", "}"})
        => /\ rp_runs' # <<>>
           /\ rp_runs'[Len(rp_runs')] [2] = _bold
           /\ JoinRuns(rp_runs') = JoinRuns(rp_runs) \o <<rtf_text[rtf_i + 1]>>]_vars

\* the example read up to the o of hello: bold on, the space after \b gone
C19_Witness ==
  /\ rtf_items = BoldExample
  /\ rtf_pc = "parse"
  /\ rtf_i = 9
  /\ _bold
  /\ rp_runs = <<<<<<"h", "e", "l", "l", "o">>, TRUE>>>>

\* the characters that markup is written with
MarkupChars ==
  {"\\", "{", "}", "'", "*", "~", "_", "-", "?"} \cup CharClass.digit
    \cup {"b", "i", "f", "s", "l", "p", "a", "r", "u", "e"}

\* the text the pieces of a well-formed input stand for
ExpectedText(items) == Flatten([k \in 1..Len(items) |-> items[k].out])

\* C20: for a well-formed input the text of the runs has nothing left over
\* of the markup: characters that markup is written with appear in it only
\* where the input has them as text (an escaped brace or backslash, the
\* hyphen of a hyphen symbol), in that order.
C20_NoLeftoverSyntax ==
  (rtf_pc = "done" /\ WellFormed(rtf_items)) =>
    SelectSeq(JoinRuns(rp_runs), LAMBDA c : c \in MarkupChars)
      = SelectSeq(ExpectedText(rtf_items), LAMBDA c : c \in MarkupChars)

\* a control word with a negative parameter and an escaped brace, parsed
C20_Witness ==
  /\ rtf_pc = "done"
  /\ Len(rtf_items) = 2
  /\ rtf_items[1].src = <<"\\", "l", "i", "-", "7", "2", "0">>
  /\ rtf_items[2].src = <<"\\", "{">>
  /\ rp_runs = <<<<<<"{">>, FALSE>>>>

\* C21: after a Unicode escape with parameter N the character with code
\* point N (N + 65536 for a negative N) is emitted and exactly the next k
\* characters of fallback representation are suppressed, k the parameter of
\* the most recent skip-count control that is not negative, 1 without one;
\* the fallback is never emitted and no character after it is lost.
C21_EscapeSkipsFallback ==
  (rtf_pc = "done" /\ rtf_items \in EscapeInputs) =>
    JoinRuns(rp_runs) = ExpectedText(rtf_items)

\* C22: a parser that raises on one candidate discards that candidate
\* alone: a fragment candidate whose parse raised leaves the best candidate
\* as it was and the loop goes on to the next one; a legacy parse that
\* raised gives no legacy capture; and the capture returned is still chosen
\* from the other representations and the plain text.
C22_RaisedCandidateDiscarded ==
  /\ [][(r_pc = "candidates" /\ r_raised' = r_raised + 1)
          => /\ r_best' = r_best
             /\ r_scored' = r_scored
             /\ r_pc' = "candidates"
             /\ r_count' = r_count + 1]_vars
  /\ [][(r_pc = "rtf" /\ r_rtf_raised') => (rtf_capture' = None /\ r_pc' = "select")]_vars
  /\ [](r_raised > 0 => (r_scored = {} <=> r_best.best_runs = <<>>))
  /\ []((r_pc = "done" /\ r_rtf_raised) =>
          /\ html_capture # None => capture = html_capture
          /\ (html_capture = None /\ plain_text # <<>>) =>
               (capture.source = "text" /\ capture.text = plain_text)
          /\ (html_capture = None /\ plain_text = <<>>) => capture = None)
  /\ []((r_pc = "done" /\ r_count > 0 /\ r_raised = r_count) =>
          /\ html_capture = None
          /\ rtf_capture # None => capture = rtf_capture
          /\ (rtf_capture = None /\ plain_text # <<>>) =>
               (capture.source = "text" /\ capture.text = plain_text))

\* one fragment candidate raised, the other was scored and accepted, the
\* legacy parse raised, and the markup capture was returned
C22_Witness ==
  /\ r_pc = "done"
  /\ r_raised = 1
  /\ r_count = 2
  /\ r_rtf_raised
  /\ r_best.best_runs # <<>>
  /\ capture = html_capture
  /\ capture # None

\* C23: a poll tick appends a capture only when its signature differs from
\* the last signature, and then stores that signature; so while the
\* clipboard content stays the same over consecutive polls with auto-capture
\* on, it is appended at most once, whichever representations each poll
\* could read.
C23_UnchangedContentOnce ==
  /\ [][doc' # doc =>
          /\ pc = "finish" /\ caller = "tick"
          /\ capture # None
          /\ capture.signature # _last_clipboard_signature
          /\ _last_clipboard_signature' = capture.signature
          /\ doc' = Append(doc, capture.runs)]_vars
  /\ [](appended_since_change <= 1)

\* the step hands the next tag or text to its handler
HandlesNext(kind) == h_pc = "feed" /\ h_pos' = h_pos + 1 /\ h_input[h_pos'].kind = kind

SkipTags == {<<"s", "c", "r", "i", "p", "t">>, <<"s", "t", "y", "l", "e">>}

\* C24: handled outside script and style, a close tag takes exactly one
\* entry off the tag stack, the innermost one of its name, and leaves the
\* others in place and in order; the bold depth goes down by one exactly
\* when that entry was bold-implying; without an entry of its name the tag
\* stack and the bold depth stay as they are.
C24_CloseTakesInnermost ==
  [][(HandlesNext("end") /\ _skip_depth = 0) =>
       LET tag == h_input[h_pos'].tag
           n == Len(_tag_stack)
       IN  IF \A k \in 1..n : _tag_stack[k][1] # tag
           THEN _tag_stack' = _tag_stack /\ _bold_depth' = _bold_depth
           ELSE \E i \in 1..n :
                  /\ _tag_stack[i][1] = tag
                  /\ \A k \in (i + 1)..n : _tag_stack[k][1] # tag
                  /\ Len(_tag_stack') = n - 1
                  /\ \A k \in 1..(i - 1) : _tag_stack'[k] = _tag_stack[k]
                  /\ \A k \in i..(n - 1) : _tag_stack'[k] = _tag_stack[k + 1]
                  /\ _bold_depth' = IF _tag_stack[i][2] THEN _bold_depth - 1
                                    ELSE _bold_depth]_vars

\* <span>, a bold-implying <span>, </span>: the inner entry is gone, the
\* outer one is left and bold is off
C24_Witness ==
  /\ h_pos = 3
  /\ h_input[1] = StartTag(<<"s", "p", "a", "n">>, <<>>)
  /\ h_input[2].kind = "start" /\ h_input[2].attrs # <<>>
  /\ h_input[3] = EndTag(<<"s", "p", "a", "n">>)
  /\ _tag_stack = <<<<<<"s", "p", "a", "n">>, FALSE>>>>
  /\ _bold_depth = 0

\* C25: whatever tags and texts were handed over, balanced or not, the bold
\* depth is the number of bold-implying entries of the tag stack, the
\* list-item depth is the number of list-item entries, and none of the bold,
\* list-item and skip depths is negative; so text handed over outside script
\* and style is emitted bold exactly when an entry of the tag stack is
\* bold-implying.
C25_DepthsCountStack ==
  /\ [](/\ _bold_depth = Cardinality({k \in 1..Len(_tag_stack) : _tag_stack[k][2]})
        /\ _li_depth = Cardinality({k \in 1..Len(_tag_stack) : _tag_stack[k][1] = <<"l", "i">>})
        /\ _bold_depth >= 0 /\ _li_depth >= 0 /\ _skip_depth >= 0)
  /\ [][(HandlesNext("data") /\ _skip_depth = 0 /\ h_input[h_pos'].data # <<>>) =>
         /\ hp_runs' # <<>>
         /\ hp_runs'[Len(hp_runs')][2] = (\E k \in 1..Len(_tag_stack) : _tag_stack[k][2])]_vars

\* <b><span><b>a</span>: the close of the span found it under an open <b>,
\* and two bold-implying entries are left
C25_Witness ==
  /\ h_input \in UnbalancedExamples
  /\ h_pos = 5
  /\ h_input[5] = EndTag(<<"s", "p", "a", "n">>)
  /\ _tag_stack = <<<<<<"b">>, TRUE>>, <<<<"b">>, TRUE>>>>
  /\ _bold_depth = 2
  /\ hp_runs = <<<<<<"a">>, TRUE>>>>

\* C26: with the skip depth above 0, nested or not, a tag or text other than
\* an open or close of script or style changes nothing of the runs, the tag
\* stack, the bold depth, the list-item depth and the skip depth, so no text
\* of such a body reaches the runs; an open of script or style raises the
\* skip depth by one and a close lowers a positive skip depth by one, neither
\* touching the rest, so the depth is back at 0 only after as many closes as
\* opens.
C26_SkippedBodyLeavesNoTrace ==
  /\ [][(h_pc = "feed" /\ h_pos' = h_pos + 1 /\ _skip_depth > 0
         /\ ~(h_input[h_pos'].kind \in {"start", "end"} /\ h_input[h_pos'].tag \in SkipTags))
        => UNCHANGED <<hp_runs, _tag_stack, _bold_depth, _li_depth, _skip_depth>>]_vars
  /\ [][(h_pc = "feed" /\ h_pos' = h_pos + 1 /\ h_input[h_pos'].tag \in SkipTags)
        => /\ UNCHANGED <<hp_runs, _tag_stack, _bold_depth, _li_depth>>
           /\ _skip_depth' = IF h_input[h_pos'].kind = "start" THEN _skip_depth + 1
                             ELSE IF _skip_depth > 0 THEN _skip_depth - 1 ELSE 0]_vars
  /\ []((h_pc = "done" /\ h_input = SkipExample) => hp_runs = <<<<<<"c">>, FALSE>>>>)

\* <script><style>a<b></b></style>b: one script is still open, and neither
\* text nor the <b> has left a trace
C26_Witness ==
  /\ h_input = SkipExample
  /\ h_pos = 7
  /\ _skip_depth = 1
  /\ hp_runs = <<>>
  /\ _tag_stack = <<>>
  /\ _bold_depth = 0

\* the step handles the close of one of the tags
ClosesOneOf(tags) == HandlesNext("end") /\ h_input[h_pos'].tag \in tags

\* the text of the runs ends with a newline
EndsWithNewline(runs) ==
  LET text == JoinRuns(runs) IN text # <<>> /\ text[Len(text)] = "\n"

\* C27 as stated: the close of a block-level tag (p, div, section, header,
\* footer, aside, blockquote, pre, ul, ol, table, tr, h1-h6) handled outside
\* every list item appends a newline to the runs, and inside a list item it
\* appends none.
C27_CloseAppendsNewline ==
  [][ClosesOneOf(BLOCK_TAGS \ {<<"a", "r", "t", "i", "c", "l", "e">>}) =>
       IF _li_depth = 0 THEN JoinRuns(hp_runs') = JoinRuns(hp_runs) \o <<"\n">>
       ELSE hp_runs' = hp_runs]_vars

\* C27, amended: the close of a block-level tag handled outside script and
\* style and outside every list item appends a newline to the runs unless
\* the runs are empty or end with a newline already, and then it appends
\* nothing; inside a list item it appends nothing.
C27_CloseEndsLine ==
  [][(ClosesOneOf(BLOCK_TAGS) /\ _skip_depth = 0) =>
       IF _li_depth = 0 /\ hp_runs # <<>> /\ ~EndsWithNewline(hp_runs)
       THEN /\ JoinRuns(hp_runs') = JoinRuns(hp_runs) \o <<"\n">>
            /\ ~hp_runs'[Len(hp_runs')][2]
       ELSE hp_runs' = hp_runs]_vars

\* a</p>: the close has put a newline after the text
C27_Witness ==
  /\ h_input = <<Data(<<"a">>), EndTag(<<"p">>)>>
  /\ h_pos = 2
  /\ hp_runs = <<<<<<"a", "\n">>, FALSE>>>>
  /\ _li_depth = 0

\* either parser at work, on the inputs of SpecHtml and of SpecRtf
InitParsers == InitHtml \/ InitRtf

NextParsers == NextHtml \/ NextRtf

SpecParsers == InitParsers /\ [][NextParsers]_vars

\* texts a handler or the parse loop appends
Contributions == {<<>>, <<"a">>, <<"\n">>, <<"-", " ">>}

\* appending the text keeps the runs well formed and puts the text at the end
AppendKeeps(runs, text, is_bold) ==
  /\ RunsWellFormed(_append(runs, text, is_bold))
  /\ JoinRuns(_append(runs, text, is_bold)) = JoinRuns(runs) \o text

\* the first text is the beginning of the second
StartsWith(longer, shorter) ==
  Len(shorter) <= Len(longer) /\ SubSeq(longer, 1, Len(shorter)) = shorter

\* C28: at every point of either parse the runs built so far have no run
\* with empty text and no two neighbours with the same bold value, and their
\* texts joined are the texts appended so far, in order: every step keeps
\* what was there and adds at the end, a text handed to handle_data or a
\* character read by the legacy parser is added exactly, and any further
\* append would add exactly its text.
C28_RunsMergedAsBuilt ==
  /\ [](RunsWellFormed(hp_runs) /\ RunsWellFormed(rp_runs))
  /\ [](\A runs \in {hp_runs, rp_runs}, text \in Contributions, is_bold \in BOOLEAN :
          AppendKeeps(runs, text, is_bold))
  /\ [][/\ StartsWith(JoinRuns(hp_runs'), JoinRuns(hp_runs))
        /\ StartsWith(JoinRuns(rp_runs'), JoinRuns(rp_runs))]_vars
  /\ [][(HandlesNext("data") /\ _skip_depth = 0)
        => JoinRuns(hp_runs') = JoinRuns(hp_runs) \o h_input[h_pos'].data]_vars
  /\ [][(/\ rtf_pc = "parse" /\ rtf_i < Len(rtf_text) /\ rtf_i' # rtf_i
         /\ _pending_skip = 0
         /\ rtf_text[rtf_i + 1] \notin {"\\", "{", "}"})
        => JoinRuns(rp_runs') = JoinRuns(rp_runs) \o <<rtf_text[rtf_i + 1]>>]_vars

\* <b><span><b>a</span>b</b>c</b>d</b>: three bold texts in one run, then a
\* plain one
C28_Witness ==
  /\ h_pc = "done"
  /\ h_input \in UnbalancedExamples
  /\ hp_runs = <<<<<<"a", "b", "c">>, TRUE>>, <<<<"d">>, FALSE>>>>

\* the input is written with braces and bold toggles alone
GroupsOnly(items) == \A k \in 1..Len(items) : items[k] \in GroupItems

\* how many of the first k pieces have been read when the index is i
PiecesRead(items, i) ==
  CHOOSE k \in 0..Len(items) : Len(Flatten([j \in 1..k |-> items[j].src])) = i

\* the groups open after the first k pieces, a close without an open group
\* counting for nothing
RECURSIVE Unclosed(_, _)
Unclosed(items, k) ==
  IF k = 0 THEN 0
  ELSE IF items[k].src = <<"{">> THEN Unclosed(items, k - 1) + 1
  ELSE IF items[k].src = <<"}">> /\ Unclosed(items, k - 1) > 0 THEN Unclosed(items, k - 1) - 1
  ELSE Unclosed(items, k - 1)

\* the open that the close at piece k matches, 0 without one
MatchingOpen(items, k) ==
  LET opens == {m \in 1..(k - 1) : /\ items[m].src = <<"{">>
                                   /\ Unclosed(items, m) = Unclosed(items, k - 1)}
  IN  IF Unclosed(items, k - 1) = 0 THEN 0
      ELSE CHOOSE m \in opens : \A other \in opens : other <= m

\* bold after the first k pieces when it is scoped by groups: a toggle sets
\* it, a close puts back what held before the matching open
RECURSIVE ScopedBold(_, _)
ScopedBold(items, k) ==
  IF k = 0 THEN FALSE
  ELSE IF items[k].src = <<"\\", "b", " ">> THEN TRUE
  ELSE IF items[k].src = <<"\\", "b", "0", " ">> THEN FALSE
  ELSE IF items[k].src = <<"}">> /\ MatchingOpen(items, k) > 0
  THEN ScopedBold(items, MatchingOpen(items, k) - 1)
  ELSE ScopedBold(items, k - 1)

\* C29: bold is scoped by groups: after a group close the bold state is the
\* one that held before the matching group open, whatever toggles and
\* nested groups lie between; the saved-state stack is as deep as there are
\* unclosed groups; a close with no group open leaves the bold state as it
\* is.
C29_BoldScopedByGroups ==
  /\ []((rtf_pc \in {"parse", "done"} /\ GroupsOnly(rtf_items))
         => /\ _bold = ScopedBold(rtf_items, PiecesRead(rtf_items, rtf_i))
            /\ Len(_bold_stack) = Unclosed(rtf_items, PiecesRead(rtf_items, rtf_i)))
  /\ [][(rtf_pc = "parse" /\ rtf_i' = rtf_i + 1 /\ rtf_text[rtf_i'] = "{")
        => (_bold_stack' = Append(_bold_stack, _bold) /\ _bold' = _bold)]_vars
  /\ [][(rtf_pc = "parse" /\ rtf_i' = rtf_i + 1 /\ rtf_text[rtf_i'] = "}")
        => IF _bold_stack = <<>> THEN _bold' = _bold /\ _bold_stack' = <<>>
           ELSE /\ _bold' = _bold_stack[Len(_bold_stack)]
                /\ _bold_stack' = SubSeq(_bold_stack, 1, Len(_bold_stack) - 1)]_vars
  /\ [][(rtf_pc = "parse" /\ rtf_i' # rtf_i /\ rtf_text[rtf_i + 1] \notin {"{", "}"})
        => _bold_stack' = _bold_stack]_vars

\* {\b {\b0 }: bold was turned off inside the inner group, and its close
\* has turned it back on; the outer group is still open
C29_Witness ==
  /\ rtf_items = <<[src |-> <<"{">>, out |-> <<>>, word |-> FALSE],
                   [src |-> <<"\\", "b", " ">>, out |-> <<>>, word |-> FALSE],
                   [src |-> <<"{">>, out |-> <<>>, word |-> FALSE],
                   [src |-> <<"\\", "b", "0", " ">>, out |-> <<>>, word |-> FALSE],
                   [src |-> <<"}">>, out |-> <<>>, word |-> FALSE]>>
  /\ rtf_i = Len(rtf_text)
  /\ _bold
  /\ Len(_bold_stack) = 1

\* what a step of a running parse does to the position and the read index:
\* an iteration leaves the index changed, the return leaves the loop
ParseRunsOn ==
  /\ rtf_pc = "parse"
  /\ \/ rtf_pc' = "done" /\ rtf_i' = rtf_i
     \/ rtf_pc' = "parse" /\ \E k \in 0..Len(rtf_text) : rtf_i' = k

\* parse runs in one thread that is not interrupted: while it is in the
\* loop the next iteration or the return is carried out
SpecRtfFair == SpecRtf /\ WF_<<rtf_pc, rtf_i>>(ParseRunsOn)

\* C30: parse terminates on every input, well formed or not: the iteration
\* at any index the loop reaches ends at a larger index, every step of the
\* loop moves the read index forward by at least one character and never
\* past the end, and the loop is left; this includes an input that ends in
\* a lone backslash, in a cut-off hexadecimal escape or in a control word,
\* one with unmatched braces, and one that ends with the skip counter still
\* armed.
C30_ParseTerminates ==
  /\ []((rtf_pc = "parse" /\ rtf_i < Len(rtf_text))
         => ParseIteration(RtfState, rtf_text).i >= rtf_i + 1)
  /\ [][(rtf_pc = "parse" /\ rtf_i < Len(rtf_text)) => rtf_i' >= rtf_i + 1]_vars
  /\ [](rtf_i <= Len(rtf_text))
  /\ <>(rtf_pc = "done")

\* {, \u233 and a lone backslash: parse has returned with a group open and
\* the skip counter armed
C30_Witness ==
  /\ rtf_pc = "done"
  /\ Len(rtf_items) = 3
  /\ rtf_items[1].src = <<"{">>
  /\ rtf_items[3].src = <<"\\">>
  /\ _pending_skip = 1
  /\ _bold_stack # <<>>
  /\ rtf_i = Len(rtf_text)

====
